---- MODULE Spec2Model ----
(***************************************************************************)
(* Model of the Pathfinder MIL code generator (milprint_summer.c).         *)
(*                                                                         *)
(* SpecAnnot : PFprintMILtemp -- the scope annotator append_lev /          *)
(*             update_expansion walking a Core tree, the post-processing   *)
(*             of var_usage, and the emission of translate2MIL.            *)
(* SpecRun   : the MIL program written by translate2MIL, executed on the   *)
(*             loop-lifted tables iter|pos|item|kind, the variable         *)
(*             environment and the working set.                            *)
(***************************************************************************)
EXTENDS Integers, Sequences, FiniteSets, TLC

(* ------------------------------------------------------------------ *)
(* Bounds of the model                                                 *)
(* ------------------------------------------------------------------ *)

\* largest number of Core nodes (binder variables not counted) of a tree
MaxNodes == 7

\* largest number of iterations of the loop relation the program starts in
MaxIter == 2

\* largest number of rows of the result of an argument expression
MaxRows == 3

\* largest number of rows of a result that is saved, bound or iterated over
MaxOpnd == 2

\* largest number of nodes with children that are translated
MaxOps == 1

\* largest number of binders (let, for) translated inside a for body or an
\* if-branch, on top of MaxOps
MaxNest == 1

(* ------------------------------------------------------------------ *)
(* Program constants                                                   *)
(* ------------------------------------------------------------------ *)

\* indices into the annotator's counter array
FID == 0
ACT_FID == 1
VID == 2

VARIABLES
    nodes,      \* the Core tree: node id -> [kind, parent, slot, ref, posvar]
    stack,      \* pending work of the recursion of append_lev (top first)
    way,        \* PFarray 'way': the fids of the active for-expressions
    counter,    \* PFarray 'counter': [FID, ACT_FID, VID]
    num,        \* c->sem.num of the for nodes (their fid)
    var,        \* the PFvar_t descriptors: key -> [base, vid, used]
    var_usage,  \* the inserts into the BAT var_usage, in order: <<vid, fid>>
    vu,         \* vu_fid/vu_vid after unique and sort: <<fid, vid>> rows
    out,        \* the code written to the stream f by translate2MIL
    adone       \* PFprintMILtemp has returned

avars == <<nodes, stack, way, counter, num, var, var_usage, vu, out, adone>>

VARIABLES
    scope,      \* the scopes: level L is scope[L+1] = [loop, inner, outer, v_vid,
                \* v_iter, v_pos, v_item, v_kind] (loop%03u ... v_kind%03u)
    res,        \* the MIL variables iter, pos, item, kind
    saved,      \* the saved results iter%03u ... kind%03u: saved[k] is slot k
                \* and Len(saved) the parameter counter of translate2MIL
    ws,         \* the working set
    vals,       \* str_values, int_values, dbl_values, dec_values
    ctl,        \* the open constructs of translate2MIL (innermost first)
    pc,         \* "expr": the code of an expression runs next; "done": the
                \* code of an expression has run; "name": the code of a c_tag
                \* has run; "if": inside the code of case c_ifthenelse
    nvid,       \* the next variable id (sem.var->vid of the next binder)
    err,        \* the message of the ERROR that stopped the program, or ""
    last,       \* the code that ran last
    arg,        \* the argument of fn:boolean or of a constructor when its code
                \* ran last
    nops,       \* number of nodes with children translated so far
    step        \* the kind of the location step translated last and the axis
                \* of the primitive in its code

rvars == <<scope, res, saved, ws, vals, ctl, pc, nvid, err, last, arg, nops,
          step>>

vars == <<avars, rvars>>

(* ------------------------------------------------------------------ *)
(* The Core tree                                                       *)
(* ------------------------------------------------------------------ *)

LeafKinds == {"c_empty", "c_lit_str"}
OtherKinds == {"c_seq", "c_ifthenelse", "c_elem", "c_attr"}

\* number of children the annotator recurses into
Arity(kind) ==
    CASE kind = "c_seq" -> 2
      [] kind = "c_ifthenelse" -> 3
      [] kind = "c_for" -> 2
      [] kind = "c_let" -> 2
      [] kind = "c_elem" -> 2
      [] kind = "c_attr" -> 2
      [] OTHER -> 0

NodeIds == 1..Len(nodes)

\* the variable bound by a for or let node, and the positional variable
VarOf(n) == <<n, "var">>
PosOf(n) == <<n, "pos">>

\* the child of n in slot s of the child array (0 when there is none)
Child(n, s) ==
    LET C == {c \in NodeIds : nodes[c].parent = n /\ nodes[c].slot = s}
    IN IF C = {} THEN 0 ELSE CHOOSE c \in C : TRUE

RECURSIVE InSubtree(_, _)
\* d lies in the subtree rooted at a (d = a included)
InSubtree(d, a) ==
    IF d = a THEN TRUE
    ELSE IF d = 0 THEN FALSE
    ELSE InSubtree(nodes[d].parent, a)

\* d is a proper descendant of a
Below(d, a) == d # a /\ InSubtree(d, a)

\* d lies in the child in slot s of a
InSlot(d, a, s) == Child(a, s) # 0 /\ InSubtree(d, Child(a, s))

ForNodes == {n \in NodeIds : nodes[n].kind = "c_for"}
LetNodes == {n \in NodeIds : nodes[n].kind = "c_let"}
VarNodes == {n \in NodeIds : nodes[n].kind = "c_var"}

\* the loop body of a for node is child[3], the body of a let is child[2]
InBody(d, a) == InSlot(d, a, 3)
InSource(d, a) == InSlot(d, a, 2)

(* ------------------------------------------------------------------ *)
(* PFarray                                                             *)
(* ------------------------------------------------------------------ *)

PFarray_top(a) == a[Len(a)]
PFarray_del(a) == SubSeq(a, 1, Len(a) - 1)
PFarray_add(a, x) == Append(a, x)

(* ------------------------------------------------------------------ *)
(* update_expansion                                                    *)
(* ------------------------------------------------------------------ *)

RECURSIVE ExpansionFrom(_, _, _)
\* the inserts of the loop of update_expansion from index m downwards
\* (m is the 1-based position in way)
ExpansionFrom(w, m, v) ==
    IF m >= 1 /\ w[m] > v.base
    THEN <<<<v.vid, w[m]>>>> \o ExpansionFrom(w, m - 1, v)
    ELSE <<>>

update_expansionInnermostOnly(w, v) ==
    IF Len(w) >= 1 /\ w[Len(w)] > v.base
    THEN <<<<v.vid, w[Len(w)]>>>>
    ELSE <<>>

update_expansion(w, v) == ExpansionFrom(w, Len(w), v)

(* ------------------------------------------------------------------ *)
(* var_usage post-processing of PFprintMILtemp                         *)
(* ------------------------------------------------------------------ *)

RECURSIVE Unique(_)
\* var_usage.unique: every (head, tail) combination once
Unique(s) ==
    IF s = <<>> THEN <<>>
    ELSE LET r == Unique(SubSeq(s, 1, Len(s) - 1))
             x == s[Len(s)]
         IN IF \E i \in 1..Len(r) : r[i] = x THEN r ELSE Append(r, x)

PairLess(a, b) == a[1] < b[1] \/ (a[1] = b[1] /\ a[2] < b[2])

RECURSIVE InsertSorted(_, _)
InsertSorted(s, x) ==
    IF s = <<>> THEN <<x>>
    ELSE IF PairLess(x, s[1]) THEN <<x>> \o s
    ELSE <<s[1]>> \o InsertSorted(Tail(s), x)

RECURSIVE SortRows(_)
\* sort by the first column, refined by the second (sort / CTrefine)
SortRows(s) ==
    IF s = <<>> THEN <<>>
    ELSE InsertSorted(SortRows(Tail(s)), s[1])

Reverse2(s) == [i \in 1..Len(s) |-> <<s[i][2], s[i][1]>>]

\* vu_fid | vu_vid as rows <<fid, vid>>
SortedUsage(usage) == SortRows(Reverse2(Unique(usage)))


(* ------------------------------------------------------------------ *)
(* translate2MIL: the code written to the stream                       *)
(*                                                                     *)
(* A piece of emitted text is <<stream, emitting function, arguments>>; *)
(* the arguments are the values printed into the text.                 *)
(* ------------------------------------------------------------------ *)

Emit(fn, args) == <<<<"f", fn, args>>>>
EmitStdout(fn, args) == <<<<"stdout", fn, args>>>>

translateEmpty == Emit("translateEmpty", <<>>)
translateVar(act_level, n) == Emit("translateVar", <<act_level, var[nodes[n].ref].vid>>)
saveResult(cnt) == Emit("saveResult", <<cnt>>)

\* deleteResult that gives free the slot above
deleteResultAbove(cnt) == Emit("deleteResult", <<cnt + 1>>)

deleteResult(cnt) == Emit("deleteResult", <<cnt>>)
castQName == Emit("castQName", <<>>)
loop_liftedElemConstr(i) == Emit("loop_liftedElemConstr", <<i>>)
loop_liftedAttrConstr(act_level, i) == Emit("loop_liftedAttrConstr", <<act_level, i>>)
translateSeq(i) == Emit("translateSeq", <<i>>)
project(act_level) == Emit("project", <<act_level>>)
getExpanded(act_level, fid) == Emit("getExpanded", <<act_level - 1, fid>>)
expand(act_level) == Emit("expand", <<act_level - 1, act_level>>)
join(act_level) == Emit("join", <<act_level - 1, act_level>>)
mapBack(act_level) == Emit("mapBack", <<act_level>>)
createNewVarTable(act_level) == Emit("createNewVarTable", <<act_level>>)
cleanUpLevel(act_level) == Emit("cleanUpLevel", <<act_level>>)
createEnumeration == Emit("createEnumeration", <<>>)
translateConst(act_level, kind) == Emit("translateConst", <<act_level, kind>>)

append(name, level) == Emit("append", <<name, level>>)

\* insertVar that appends to the tables of the enclosing level
insertVarOuter(act_level, vid) ==
    Emit("insertVar{", <<vid>>)
    \o append("vid", act_level - 1) \o append("iter", act_level - 1)
    \o append("pos", act_level - 1) \o append("item", act_level - 1)
    \o append("kind", act_level - 1)
    \o Emit("}insertVar", <<>>)

insertVar(act_level, vid) ==
    Emit("insertVar{", <<vid>>)
    \o append("vid", act_level) \o append("iter", act_level)
    \o append("pos", act_level) \o append("item", act_level)
    \o append("kind", act_level)
    \o Emit("}insertVar", <<>>)

\* case c_elem with the content translated before the name
elem_codeContentFirst(name, content, cnt) ==
    content
    \o name
    \o castQName
    \o saveResult(cnt)
    \o loop_liftedElemConstr(cnt)
    \o deleteResult(cnt)

\* case c_elem: name is the code of child[0], content the code of child[1]
\* and cnt the slot of the name
elem_code(name, content, cnt) ==
    name
    \o castQName
    \o saveResult(cnt)
    \o content
    \o loop_liftedElemConstr(cnt)
    \o deleteResult(cnt)

RECURSIVE translate2MIL(_, _, _)

translateIfThen(act_level, cnt, c, then, bool_res) ==
    LET lev == act_level + 1
    IN Emit("{translateIfThen", <<lev, lev - 1>>)
       \o Emit("if(skip=0){", <<>>)
       \o (IF ~then THEN Emit("selected:=false", <<bool_res>>) ELSE <<>>)
       \o Emit("phase1", <<bool_res, lev>>)
       \o Emit("expOid:=v_iter.mirror", <<lev>>)
       \o expand(lev)
       \o join(lev)
       \o Emit("expOid:=nil}", <<>>)
       \o Emit(IF then THEN "if(skip!=1){" ELSE "if(skip!=2){", <<>>)
       \o translate2MIL(lev, cnt, c)
       \o Emit("}else{", <<>>)
       \o translateEmpty
       \o Emit("}", <<>>)
       \o Emit("if(skip=0){", <<>>)
       \o mapBack(lev)
       \o Emit("}", <<>>)
       \o cleanUpLevel(lev)
       \o Emit("}translateIfThen", <<>>)

translate2MIL(act_level, cnt, c) ==
    LET kind == nodes[c].kind
        ch(i) == Child(c, i)
        ck(i) == nodes[ch(i)].kind
    IN CASE kind = "c_var" -> translateVar(act_level, c)
         [] kind = "c_seq" ->
              IF ck(0) = "c_empty" /\ ck(1) # "c_empty"
              THEN translateEmpty
              ELSE IF ck(0) = "c_empty"
              THEN translate2MIL(act_level, cnt, ch(1))
              ELSE IF ck(1) = "c_empty"
              THEN translate2MIL(act_level, cnt, ch(0))
              ELSE translate2MIL(act_level, cnt, ch(0))
                   \o saveResult(cnt + 1)
                   \o translate2MIL(act_level, cnt + 1, ch(1))
                   \o translateSeq(cnt + 1)
                   \o deleteResult(cnt + 1)
         [] kind = "c_let" ->
              translate2MIL(act_level, cnt, ch(1))
              \o (IF var[VarOf(c)].used = 1
                  THEN insertVar(act_level, var[VarOf(c)].vid) ELSE <<>>)
              \o translate2MIL(act_level, cnt, ch(2))
         [] kind = "c_for" ->
              translate2MIL(act_level, cnt, ch(2))
              \o Emit("{for-translation", <<>>)
              \o project(act_level + 1)
              \o Emit("var expOid", <<>>)
              \o getExpanded(act_level + 1, num[c])
              \o Emit("if(expOid.count!=0){", <<>>)
              \o expand(act_level + 1)
              \o join(act_level + 1)
              \o Emit("}else{", <<>>)
              \o createNewVarTable(act_level + 1)
              \o Emit("}expOid:=nil", <<>>)
              \o (IF var[VarOf(c)].used = 1
                  THEN insertVar(act_level + 1, var[VarOf(c)].vid) ELSE <<>>)
              \o (IF nodes[c].posvar /\ var[PosOf(c)].used = 1
                  THEN createEnumeration
                       \o insertVar(act_level + 1, var[PosOf(c)].vid)
                  ELSE <<>>)
              \o translate2MIL(act_level + 1, cnt, ch(3))
              \o mapBack(act_level + 1)
              \o cleanUpLevel(act_level + 1)
              \o Emit("}for-translation", <<>>)
         [] kind = "c_ifthenelse" ->
              LET bool_res == cnt + 1
              IN translate2MIL(act_level, cnt, ch(0))
                 \o saveResult(cnt + 1)
                 \o Emit("{ifthenelse-translation", <<>>)
                 \o Emit("selected/skip", <<bool_res>>)
                 \o (IF ck(2) = "c_empty"
                     THEN translateIfThen(act_level, cnt + 1, ch(1), TRUE, bool_res)
                     ELSE IF ck(1) = "c_empty"
                     THEN translateIfThen(act_level, cnt + 1, ch(2), FALSE, bool_res)
                     ELSE translateIfThen(act_level, cnt + 1, ch(1), TRUE, bool_res)
                          \o saveResult(cnt + 2)
                          \o translateIfThen(act_level, cnt + 2, ch(2), FALSE, bool_res)
                          \o translateSeq(cnt + 2)
                          \o deleteResult(cnt + 2))
                 \o EmitStdout("}ifthenelse-translation", <<>>)
                 \o deleteResult(cnt + 1)
         [] kind = "c_elem" ->
              elem_code(translate2MIL(act_level, cnt, ch(0)),
                        translate2MIL(act_level, cnt + 1, ch(1)), cnt + 1)
         [] kind = "c_attr" ->
              translate2MIL(act_level, cnt, ch(0))
              \o castQName
              \o saveResult(cnt + 1)
              \o translate2MIL(act_level, cnt + 1, ch(1))
              \o loop_liftedAttrConstr(act_level, cnt + 1)
              \o deleteResult(cnt + 1)
         [] kind = "c_lit_str" ->
              Emit("{lit_str", <<"s">>)
              \o translateConst(act_level, "STR")
              \o Emit("itemID:=nil}", <<>>)
         [] kind = "c_empty" -> translateEmpty

\* what arrived at the stream f
ToF(code) == SelectSeq(code, LAMBDA t : t[1] = "f")

(* ------------------------------------------------------------------ *)
(* The run-time data of the MIL program                                *)
(*                                                                     *)
(* A BAT with a dense head starting at 0@0 is a sequence: the tail of  *)
(* head h@0 is element h + 1.  An oid is its number.                   *)
(* ------------------------------------------------------------------ *)

\* the fragment of the working set that receives the constructed nodes
WS == 0

\* a kind is a type tag together with a fragment
get_kind(frag, type) == [t |-> type, f |-> frag]
get_fragment(k) == k.f

STR == get_kind(WS, "STR")
INT == get_kind(WS, "INT")
DBL == get_kind(WS, "DBL")
DEC == get_kind(WS, "DEC")
BOOL == get_kind(WS, "BOOL")
QNAME == get_kind(WS, "QNAME")
NODE == get_kind(WS, "NODE")
ATTR == get_kind(WS, "ATTR")

\* const EMPTY_STRING := 0@0
EMPTY_STRING == 0

\* the null pointer of the translator (no kind, no namespace, no local
\* name handed to loop_liftedSCJ)
NULL == "NULL"

\* bool_map and bool_not of init ()
bool_map(b) == IF b THEN 1 ELSE 0
bool_not(i) == IF i = 0 THEN 1 ELSE 0

Idx(s) == 1..Len(s)

\* b.project(v)
proj(s, v) == [i \in Idx(s) |-> v]

\* b.mark(base@0)
mark(s, base) == [i \in Idx(s) |-> base + i - 1]

\* sel.mark(0@0).reverse for a selection sel of the rows of a BAT of n rows:
\* the selected positions, ascending
Rows(n, Test(_)) == SelectSeq([i \in 1..n |-> i], Test)

\* idx.leftfetchjoin(col)
leftfetchjoin(idx, col) == [k \in Idx(idx) |-> col[idx[k]]]

\* the positions of the rows whose type is type (kind.get_type(type))
get_type(kind, type) == Rows(Len(kind), LAMBDA i : kind[i].t = type)

\* the positions of the rows that hold v (b.ord_uselect(v))
ord_uselect(s, v) == Rows(Len(s), LAMBDA i : s[i] = v)

\* iter.mark_grp(iter.reverse.project(1@0)): numbering from 1 inside every
\* group of equal iter values, in row order
mark_grp(iter) ==
    [i \in Idx(iter) |-> Cardinality({j \in 1..i : iter[j] = iter[i]})]

\* {count}(iter.reverse, loop.reverse): for every row of loop the number of
\* rows of iter that hold its value
count_grp(iter, loop) ==
    [i \in Idx(loop) |-> Cardinality({k \in Idx(iter) : iter[k] = loop[i]})]

RECURSIVE tunique(_)
\* the distinct values of a column, in the order of their first occurrence
tunique(s) ==
    IF s = <<>> THEN <<>>
    ELSE LET r == tunique(SubSeq(s, 1, Len(s) - 1))
             x == s[Len(s)]
         IN IF \E i \in Idx(r) : r[i] = x THEN r ELSE Append(r, x)

\* the position of value x in a column with unique values
PosIn(s, x) == CHOOSE i \in Idx(s) : s[i] = x

RECURSIVE merged_union(_, _)
\* merged_union of two row lists sorted on their first column: a merge in
\* which the rows of the left list come first among equal keys
merged_union(a, b) ==
    IF a = <<>> THEN b
    ELSE IF b = <<>> THEN a
    ELSE IF a[1][1] <= b[1][1]
    THEN <<a[1]>> \o merged_union(Tail(a), b)
    ELSE <<b[1]>> \o merged_union(a, Tail(b))

\* a table iter|pos|item|kind
Table(iter, pos, item, kind) ==
    [iter |-> iter, pos |-> pos, item |-> item, kind |-> kind]

\* the four variables set to nil
NilTable == Table(<<>>, <<>>, <<>>, <<>>)

\* addValues: the table with the values it does not hold yet appended
addValues(table, values) ==
    table \o SelectSeq(tunique(values),
                       LAMBDA v : \A i \in Idx(table) : table[i] # v)

\* addValues: the offsets of the values in the extended table
Offsets(table, values) == [i \in Idx(values) |-> PosIn(table, values[i]) - 1]

(* ------------------------------------------------------------------ *)
(* The working set                                                     *)
(* ------------------------------------------------------------------ *)

NoTable == [f \in {WS} |-> <<>>]

\* create_ws (): one fragment, WS, all of whose tables are empty
create_ws ==
    [PRE_SIZE |-> NoTable, PRE_LEVEL |-> NoTable, PRE_KIND |-> NoTable,
     PRE_PROP |-> NoTable, PRE_FRAG |-> NoTable,
     ATTR_OWN |-> NoTable, ATTR_QN |-> NoTable, ATTR_PROP |-> NoTable,
     ATTR_FRAG |-> NoTable,
     QN_NS |-> NoTable, QN_LOC |-> NoTable,
     PROP_VAL |-> NoTable, PROP_TEXT |-> NoTable,
     WS_FRAG |-> <<>>, HEIGHT |-> [f \in {WS} |-> 0],
     DOC_LOADED |-> <<>>, FRAG |-> WS]

\* the documents of the store: a document node, its elements in document
\* order and their attributes
\*   "a" : <a x=".." y=".."><b x=".."/></a>       "" and others : <c x=".."/>
DocTree(name) ==
    IF name = "a"
    THEN [size |-> <<2, 1, 0>>, level |-> <<0, 1, 2>>,
          kind |-> <<"DOCUMENT", "ELEMENT", "ELEMENT">>,
          prop |-> <<0, 0, 1>>,
          own |-> <<1, 1, 2>>, qn |-> <<2, 3, 2>>, aprop |-> <<0, 1, 0>>,
          ns |-> <<"", "", "", "">>, loc |-> <<"a", "b", "x", "y">>,
          val |-> <<"1", "2">>]
    ELSE [size |-> <<1, 0>>, level |-> <<0, 1>>,
          kind |-> <<"DOCUMENT", "ELEMENT">>,
          prop |-> <<0, 0>>,
          own |-> <<1>>, qn |-> <<1>>, aprop |-> <<0>>,
          ns |-> <<"", "">>, loc |-> <<"c", "x">>,
          val |-> <<"1">>]

\* add_doc (ws, name): the document becomes the next fragment
add_doc(w, name) ==
    LET frag == Len(w.DOC_LOADED) + 1
        d == DocTree(name)
        put(t, s) == (frag :> s) @@ t
    IN [w EXCEPT
          !.PRE_SIZE = put(@, d.size), !.PRE_LEVEL = put(@, d.level),
          !.PRE_KIND = put(@, d.kind), !.PRE_PROP = put(@, d.prop),
          !.PRE_FRAG = put(@, proj(d.size, frag)),
          !.ATTR_OWN = put(@, d.own), !.ATTR_QN = put(@, d.qn),
          !.ATTR_PROP = put(@, d.aprop),
          !.ATTR_FRAG = put(@, proj(d.own, frag)),
          !.QN_NS = put(@, d.ns), !.QN_LOC = put(@, d.loc),
          !.PROP_VAL = put(@, d.val), !.PROP_TEXT = put(@, <<>>),
          !.HEIGHT = put(@, 2),
          !.DOC_LOADED = Append(@, name), !.FRAG = frag]

\* mposjoin (item, frag, table): the entry of every (item, frag) pair
mposjoin(item, frag, table) == [i \in Idx(item) |-> table[frag[i]][item[i] + 1]]

\* mvaljoin (item, frag, table): the pairs <<i, e>> such that entry e of the
\* table of fragment frag[i] holds item[i], ordered by i and then by e
mvaljoin(item, frag, table) ==
    LET hits(i) == Rows(Len(table[frag[i]]),
                        LAMBDA e : table[frag[i]][e] = item[i])
        RECURSIVE from(_)
        from(i) == IF i > Len(item) THEN <<>>
                   ELSE [k \in Idx(hits(i)) |-> <<i, hits(i)[k] - 1>>]
                        \o from(i + 1)
    IN from(1)

\* loop_lifted_descendant_or_self_step: the pairs <<i, pre>> of every
\* context node i and the nodes of its subtree, in document order
descendant_or_self(item, frag, w) ==
    LET RECURSIVE from(_)
        from(i) == IF i > Len(item) THEN <<>>
                   ELSE [k \in 1..(w.PRE_SIZE[frag[i]][item[i] + 1] + 1)
                            |-> <<i, item[i] + k - 1>>]
                        \o from(i + 1)
    IN from(1)

(* ------------------------------------------------------------------ *)
(* The effect of the code written by the emitting functions            *)
(* ------------------------------------------------------------------ *)

\* the scope the translator is in
cur_level == Len(scope) - 1
Cur == scope[Len(scope)]

\* a scope: alias says that v_vid ... v_kind are the BATs of the enclosing
\* scope (assigned, not copied); vis are the variables in scope
Level(loop, inner, outer, env, alias, vis) ==
    [loop |-> loop, inner |-> inner, outer |-> outer,
     v_vid |-> env.v_vid, v_iter |-> env.v_iter, v_pos |-> env.v_pos,
     v_item |-> env.v_item, v_kind |-> env.v_kind,
     alias |-> alias, vis |-> vis]

Env(vid, iter, pos, item, kind) ==
    [v_vid |-> vid, v_iter |-> iter, v_pos |-> pos, v_item |-> item,
     v_kind |-> kind]

\* the rows of the code of translateEmpty
mil_translateEmpty == Table(<<>>, <<>>, <<>>, <<>>)

\* the code of translateVar
mil_translateVar(l, v) ==
    LET vid == ord_uselect(l.v_vid, v)
    IN Table(leftfetchjoin(vid, l.v_iter), leftfetchjoin(vid, l.v_pos),
             leftfetchjoin(vid, l.v_item), leftfetchjoin(vid, l.v_kind))

\* the three columns handed to merged_union, as rows
MergeRows(r) == [i \in Idx(r.iter) |-> <<r.iter[i], r.item[i], r.kind[i]>>]

\* translateSeq that hands the current result to merged_union first
mil_translateSeqRightFirst(s, r) ==
    IF Len(r.iter) = 0 THEN s
    ELSE IF Len(s.iter) # 0
    THEN LET m == merged_union(MergeRows(r), MergeRows(s))
             iter == [i \in Idx(m) |-> m[i][1]]
         IN Table(iter, mark_grp(iter),
                  [i \in Idx(m) |-> m[i][2]], [i \in Idx(m) |-> m[i][3]])
    ELSE r

\* the code of translateSeq: s is the saved result, r the current one
mil_translateSeq(s, r) ==
    IF Len(r.iter) = 0 THEN s
    ELSE IF Len(s.iter) # 0
    THEN LET m == merged_union(MergeRows(s), MergeRows(r))
             iter == [i \in Idx(m) |-> m[i][1]]
         IN Table(iter, mark_grp(iter),
                  [i \in Idx(m) |-> m[i][2]], [i \in Idx(m) |-> m[i][3]])
    ELSE r

\* the code of translateConst
mil_translateConst(loop, itemID, kind) ==
    Table(loop, proj(loop, 1), proj(loop, itemID), proj(loop, kind))

\* the pairs <<i, j>> with left[i] = right[j], by i and then by j (leftjoin)
leftjoin(left, right) ==
    LET RECURSIVE from(_)
        from(i) ==
            IF i > Len(left) THEN <<>>
            ELSE LET hit == Rows(Len(right), LAMBDA j : right[j] = left[i])
                 IN [k \in Idx(hit) |-> <<i, hit[k]>>] \o from(i + 1)
    IN from(1)

\* expand and join that leave the rows in the iterations of the enclosing
\* scope
mil_expand_joinOuterIter(l, expOid, outer, inner) ==
    LET oidMap == leftjoin(outer, leftfetchjoin(expOid, l.v_iter))
        o(p) == oidMap[p][1]
        e(p) == expOid[oidMap[p][2]]
    IN Env([p \in Idx(oidMap) |-> l.v_vid[e(p)]],
           [p \in Idx(oidMap) |-> outer[o(p)]],
           [p \in Idx(oidMap) |-> l.v_pos[e(p)]],
           [p \in Idx(oidMap) |-> l.v_item[e(p)]],
           [p \in Idx(oidMap) |-> l.v_kind[e(p)]])

\* the code of expand and join: the rows expOid of the environment of the
\* enclosing scope, carried to the iterations inner of the new scope
mil_expand_join(l, expOid, outer, inner) ==
    LET oidMap == leftjoin(outer, leftfetchjoin(expOid, l.v_iter))
        o(p) == oidMap[p][1]
        e(p) == expOid[oidMap[p][2]]
    IN Env([p \in Idx(oidMap) |-> l.v_vid[e(p)]],
           [p \in Idx(oidMap) |-> inner[o(p)]],
           [p \in Idx(oidMap) |-> l.v_pos[e(p)]],
           [p \in Idx(oidMap) |-> l.v_item[e(p)]],
           [p \in Idx(oidMap) |-> l.v_kind[e(p)]])

\* the code of createNewVarTable
mil_createNewVarTable == Env(<<>>, <<>>, <<>>, <<>>, <<>>)

\* the five calls of append of insertVar on the tables of one scope
append5(l, r, vid) ==
    [l EXCEPT !.v_vid = @ \o proj(r.iter, vid), !.v_iter = @ \o r.iter,
              !.v_pos = @ \o r.pos, !.v_item = @ \o r.item,
              !.v_kind = @ \o r.kind]

RECURSIVE mil_insertVar(_, _, _, _)
\* the code of insertVar at level L (scope sc[L]): the inserts reach every
\* scope that holds the same BATs
mil_insertVar(sc, L, r, vid) ==
    LET sc1 == [sc EXCEPT ![L] = append5(@, r, vid)]
    IN IF sc[L].alias /\ L > 1 THEN mil_insertVar(sc1, L - 1, r, vid) ELSE sc1

\* mapBack that keeps the pos column of the body
mil_mapBackStalePos(r, inner, outer) ==
    LET iter == [i \in Idx(r.iter) |-> outer[PosIn(inner, r.iter[i])]]
    IN Table(iter, r.pos, r.item, r.kind)

\* the code of mapBack
mil_mapBack(r, inner, outer) ==
    LET iter == [i \in Idx(r.iter) |-> outer[PosIn(inner, r.iter[i])]]
    IN Table(iter, mark_grp(iter), r.item, r.kind)

\* the code of createEnumeration: the integers of the heads of item
ints_cE(r) == [i \in Idx(r.item) |-> i - 1]

(* ---------------- built-in functions (translateFunction) ----------- *)

\* x.leftfetchjoin(str_values) for item references x: a reference outside
\* of the table finds no row
fetch_str(item) ==
    LET hit == Rows(Len(item), LAMBDA i : item[i] + 1 \in Idx(vals.str))
    IN [k \in Idx(hit) |-> vals.str[item[hit[k]] + 1]]

\* fn:count
fn_count(r, loop) ==
    LET iter_count == count_grp(r.iter, loop)
        int_values == addValues(vals.int, iter_count)
    IN [res |-> Table(loop, proj(loop, 1), Offsets(int_values, iter_count),
                      proj(loop, INT)),
        int |-> int_values]

\* fn:empty
fn_empty(r, loop) ==
    LET iter_count == count_grp(r.iter, loop)
    IN Table(loop, proj(loop, 1),
             [i \in Idx(loop) |-> bool_map(iter_count[i] = 0)],
             proj(loop, BOOL))

\* fn:not: item.leftfetchjoin(bool_not) finds the items 0@0 and 1@0
fn_not(r) ==
    LET hit == Rows(Len(r.item), LAMBDA i : r.item[i] \in {0, 1})
    IN [r EXCEPT !.item = [k \in Idx(hit) |-> bool_not(r.item[hit[k]])]]

\* fn:boolean: the rows of loop whose entry of trues is replaced by false
fn_booleanNoDec(r, loop) ==
    LET iter_count == count_grp(r.iter, loop)
        test == {i \in Idx(loop) : iter_count[i] = 1}
        row(i) == CHOOSE k \in Idx(r.iter) : r.iter[k] = loop[i]
        is(i, k) == r.kind[row(i)] = k
        item(i) == r.item[row(i)] + 1
    IN {i \in test : is(i, STR) /\ vals.str[item(i)] = ""}
       \cup {i \in test : is(i, INT) /\ vals.int[item(i)] = 0}
       \cup {i \in test : is(i, DBL) /\ vals.dbl[item(i)] = 0}
       \cup {i \in test : is(i, BOOL) /\ r.item[row(i)] = 0}

fn_boolean_false(r, loop) ==
    LET iter_count == count_grp(r.iter, loop)
        test == {i \in Idx(loop) : iter_count[i] = 1}
        row(i) == CHOOSE k \in Idx(r.iter) : r.iter[k] = loop[i]
        is(i, k) == r.kind[row(i)] = k
        item(i) == r.item[row(i)] + 1
    IN {i \in test : is(i, STR) /\ vals.str[item(i)] = ""}
       \cup {i \in test : is(i, INT) /\ vals.int[item(i)] = 0}
       \cup {i \in test : is(i, DEC) /\ vals.dec[item(i)] = 0}
       \cup {i \in test : is(i, DBL) /\ vals.dbl[item(i)] = 0}
       \cup {i \in test : is(i, BOOL) /\ r.item[row(i)] = 0}

\* fn:boolean
fn_boolean(r, loop) ==
    LET iter_count == count_grp(r.iter, loop)
        false == fn_boolean_false(r, loop)
        trues == [i \in Idx(loop) |->
                     IF i \in false THEN FALSE ELSE iter_count[i] # 0]
    IN Table(loop, proj(loop, 1),
             [i \in Idx(loop) |-> bool_map(trues[i])], proj(loop, BOOL))

\* fn:doc: the working set after the batloop over the documents not loaded
RECURSIVE add_docs(_, _)
add_docs(w, docs) ==
    IF docs = <<>> THEN w ELSE add_docs(add_doc(w, docs[1]), Tail(docs))

fn_doc(r) ==
    LET docs == SelectSeq(fetch_str(tunique(r.item)),
                          LAMBDA d : \A i \in Idx(ws.DOC_LOADED) :
                                        ws.DOC_LOADED[i] # d)
        w == add_docs(ws, docs)
        j == leftjoin(fetch_str(r.item), w.DOC_LOADED)
        kind == [k \in Idx(j) |-> get_kind(j[k][2], "NODE")]
    IN [res |-> Table(r.iter, r.pos, proj(kind, 0), kind), ws |-> w]

\* the rows of a table that are the first of their (iter, item, kind)
\* combination (CTgroup(iter).CTgroup(item).CTgroup(kind).tunique)
unq(r) ==
    Rows(Len(r.iter),
         LAMBDA i : \A j \in 1..(i - 1) :
            ~(r.iter[j] = r.iter[i] /\ r.item[j] = r.item[i]
              /\ r.kind[j] = r.kind[i]))

\* the order of a sort on item alone
DdoLessByItem(a, b) == a[2] < b[2]

\* the order of sort on iter refined by kind and by item
DdoLess(a, b) ==
    \/ a[1] < b[1]
    \/ a[1] = b[1] /\ a[3].f < b[3].f
    \/ a[1] = b[1] /\ a[3].f = b[3].f /\ a[2] < b[2]

RECURSIVE DdoInsert(_, _)
DdoInsert(s, x) ==
    IF s = <<>> THEN <<x>>
    ELSE IF DdoLess(x, s[1]) THEN <<x>> \o s
    ELSE <<s[1]>> \o DdoInsert(Tail(s), x)

RECURSIVE DdoSort(_)
DdoSort(s) ==
    IF s = <<>> THEN <<>>
    ELSE DdoInsert(DdoSort(SubSeq(s, 1, Len(s) - 1)), s[Len(s)])

\* pf:distinct-doc-order (the error check is in the action)
fn_ddo(r) ==
    LET temp_ddo == unq(r)
        rows == [k \in Idx(temp_ddo) |->
                    <<r.iter[temp_ddo[k]], r.item[temp_ddo[k]],
                      r.kind[temp_ddo[k]]>>]
        sorting == DdoSort(rows)
        iter == [k \in Idx(sorting) |-> sorting[k][1]]
    IN Table(iter, mark(iter, 1),
             [k \in Idx(sorting) |-> sorting[k][2]],
             [k \in Idx(sorting) |-> sorting[k][3]])

(* ---------------- location steps ----------------------------------- *)

\* the element axes: the pre values reached from node pre of fragment fr
AxisNodes(axis, pre, fr) ==
    LET size == ws.PRE_SIZE[fr]
        level == ws.PRE_LEVEL[fr]
        all == 0..(Len(size) - 1)
        desc(p) == {q \in all : p < q /\ q <= p + size[p + 1]}
        anc(p) == {q \in all : p \in desc(q)}
        par(p) == {q \in anc(p) : level[q + 1] = level[p + 1] - 1}
        sib(p) == {q \in all : q # p /\ par(q) = par(p) /\ par(p) # {}}
    IN CASE axis = "ancestor" -> anc(pre)
         [] axis = "ancestor_or_self" -> anc(pre) \cup {pre}
         [] axis = "child" ->
              {q \in desc(pre) : level[q + 1] = level[pre + 1] + 1}
         [] axis = "descendant" -> desc(pre)
         [] axis = "descendant_or_self" -> desc(pre) \cup {pre}
         [] axis = "following" -> {q \in all : q > pre + size[pre + 1]}
         [] axis = "following_sibling" -> {q \in sib(pre) : q > pre}
         [] axis = "parent" -> par(pre)
         [] axis = "preceding" -> {q \in all : q < pre} \ anc(pre)
         [] axis = "preceding_sibling" -> {q \in sib(pre) : q < pre}

\* the node test of a step: kind is a node kind, ns a namespace and loc a
\* local name, or NULL
NodeTest(kind, ns, loc, pre, fr) ==
    /\ kind # NULL => ws.PRE_KIND[fr][pre + 1] = kind
    /\ ns # NULL => /\ ws.PRE_KIND[fr][pre + 1] = "ELEMENT"
                    /\ ws.QN_NS[ws.PRE_FRAG[fr][pre + 1]]
                               [ws.PRE_PROP[fr][pre + 1] + 1] = ns
    /\ loc # NULL => /\ ws.PRE_KIND[fr][pre + 1] = "ELEMENT"
                     /\ ws.QN_LOC[ws.PRE_FRAG[fr][pre + 1]]
                                 [ws.PRE_PROP[fr][pre + 1] + 1] = loc

Frags == DOMAIN ws.PRE_SIZE

RECURSIVE SetToSeq(_)
\* the elements of a set of numbers, ascending
SetToSeq(S) ==
    IF S = {} THEN <<>>
    ELSE LET m == CHOOSE x \in S : \A y \in S : x <= y
         IN <<m>> \o SetToSeq(S \ {m})

\* loop_lifted_<axis>_step..._joined: for every iteration the nodes reached
\* from its context nodes, once each, by fragment and document order
loop_lifted_step(axis, kind, ns, loc, r) ==
    LET reached(it, fr) ==
            UNION {{q \in AxisNodes(axis, r.item[i], fr) :
                       NodeTest(kind, ns, loc, q, fr)} :
                   i \in {j \in Idx(r.iter) :
                             r.iter[j] = it /\ r.kind[j].f = fr}}
        its == tunique(r.iter)
        frs == SetToSeq(Frags)
        RECURSIVE byFrag(_, _)
        byFrag(it, k) ==
            IF k > Len(frs) THEN <<>>
            ELSE LET qs == SetToSeq(reached(it, frs[k]))
                 IN [n \in Idx(qs) |-> <<it, qs[n], frs[k]>>]
                    \o byFrag(it, k + 1)
        RECURSIVE byIter(_)
        byIter(k) ==
            IF k > Len(its) THEN <<>> ELSE byFrag(its[k], 1) \o byIter(k + 1)
    IN byIter(1)

\* loop_liftedSCJ for the attribute axis: rows <<iter, attr, frag>>
attribute_step(ns, loc, r) ==
    LET u == unq(r)
        oid_iter == leftfetchjoin(u, r.iter)
        oid_item == leftfetchjoin(u, r.item)
        oid_frag == [k \in Idx(u) |-> get_fragment(r.kind[u[k]])]
        temp1 == mvaljoin(oid_item, oid_frag, ws.ATTR_OWN)
        rows == [k \in Idx(temp1) |->
                    <<oid_iter[temp1[k][1]], temp1[k][2],
                      oid_frag[temp1[k][1]]>>]
        space(row) ==
            ws.QN_NS[ws.ATTR_FRAG[row[3]][row[2] + 1]]
                    [ws.ATTR_QN[row[3]][row[2] + 1] + 1]
        name(row) ==
            ws.QN_LOC[ws.ATTR_FRAG[row[3]][row[2] + 1]]
                     [ws.ATTR_QN[row[3]][row[2] + 1] + 1]
    IN SelectSeq(rows, LAMBDA row : /\ ns # NULL => space(row) = ns
                                    /\ loc # NULL => name(row) = loc)

\* translateLocsteps without the new pos column
mil_translateLocstepsStalePos(axis, kind, ns, loc, r) ==
    LET sel_ls == get_type(r.kind, "NODE")
        ctx == Table(leftfetchjoin(sel_ls, r.iter), <<>>,
                     leftfetchjoin(sel_ls, r.item),
                     leftfetchjoin(sel_ls, r.kind))
        res_scj == IF axis = "attribute" THEN attribute_step(ns, loc, ctx)
                   ELSE loop_lifted_step(axis, kind, ns, loc, ctx)
    IN Table([k \in Idx(res_scj) |-> res_scj[k][1]], r.pos,
             [k \in Idx(res_scj) |-> res_scj[k][2]],
             [k \in Idx(res_scj) |-> get_kind(res_scj[k][3],
                 IF axis = "attribute" THEN "ATTR" ELSE "NODE")])

\* the code of translateLocsteps
mil_translateLocsteps(axis, kind, ns, loc, r) ==
    LET sel_ls == get_type(r.kind, "NODE")
        ctx == Table(leftfetchjoin(sel_ls, r.iter), <<>>,
                     leftfetchjoin(sel_ls, r.item),
                     leftfetchjoin(sel_ls, r.kind))
        res_scj == IF axis = "attribute" THEN attribute_step(ns, loc, ctx)
                   ELSE loop_lifted_step(axis, kind, ns, loc, ctx)
        iter == [k \in Idx(res_scj) |-> res_scj[k][1]]
    IN Table(iter, mark_grp(iter),
             [k \in Idx(res_scj) |-> res_scj[k][2]],
             [k \in Idx(res_scj) |-> get_kind(res_scj[k][3],
                 IF axis = "attribute" THEN "ATTR" ELSE "NODE")])

(* ---------------- names and constructors --------------------------- *)

\* the oid nil
nil == -1

\* the outcome of a piece of code: the result, the working set, the error
Outcome(r, w, e) == [res |-> r, ws |-> w, err |-> e]

\* a table of the fragment WS with rows appended
WsAppend(w, table, rows) == [w EXCEPT ![table][WS] = @ \o rows]

\* case c_tag: the itemID of the name and the working set that holds it
mil_tag(w, ns, loc) ==
    LET propID == Rows(Len(w.QN_NS[WS]),
                       LAMBDA i : w.QN_NS[WS][i] = ns /\ w.QN_LOC[WS][i] = loc)
    IN IF Len(propID) = 0
       THEN [itemID |-> Len(w.QN_LOC[WS]),
             ws |-> WsAppend(WsAppend(w, "QN_NS", <<ns>>), "QN_LOC", <<loc>>)]
       ELSE [itemID |-> propID[1] - 1, ws |-> w]

\* the code of castQName
mil_castQName(r, w) ==
    LET qnames == get_type(r.kind, "QNAME")
        counted_items == Len(r.kind)
        counted_qn == Len(qnames)
        strings == ord_uselect(r.kind, STR)
        oid_item == leftfetchjoin(strings, r.item)
        oid_str == fetch_str(tunique(oid_item))
        names(x) == Rows(Len(x.QN_NS[WS]), LAMBDA i : x.QN_NS[WS][i] = "")
        prop_name(x) == leftfetchjoin(names(x), x.QN_LOC[WS])
        str_oid == SelectSeq(oid_str,
                      LAMBDA s : \A i \in Idx(prop_name(w)) : prop_name(w)[i] # s)
        w1 == WsAppend(WsAppend(w, "QN_LOC", str_oid),
                       "QN_NS", proj(str_oid, ""))
        oid_prop == LET j == leftjoin(fetch_str(oid_item), prop_name(w1))
                    IN [k \in Idx(j) |-> names(w1)[j[k][2]] - 1]
        res_mu == merged_union(
                     [k \in Idx(oid_prop) |-> <<strings[k], oid_prop[k]>>],
                     [k \in Idx(qnames) |-> <<qnames[k], r.item[qnames[k]]>>])
        item == IF counted_qn = 0 THEN oid_prop
                ELSE [k \in Idx(res_mu) |-> res_mu[k][2]]
    IN IF counted_items = counted_qn THEN Outcome(r, w, "")
       ELSE IF counted_items # Len(strings) + counted_qn
       THEN Outcome(r, w, "only strings and qnames can be casted to qnames")
       ELSE Outcome([r EXCEPT !.item = item, !.kind = proj(item, QNAME)],
                    w1, "")

\* the strings of a column of item references added to a property table of
\* WS, and the property of every reference (unq_str, strings)
AddProps(w, table, item) ==
    LET unq_str == SelectSeq(fetch_str(tunique(item)),
                      LAMBDA s : \A i \in Idx(w[table][WS]) : w[table][WS][i] # s)
        w1 == WsAppend(w, table, unq_str)
        j == leftjoin(fetch_str(item), w1[table][WS])
    IN [ws |-> w1, strings |-> [k \in Idx(j) |-> j[k][2] - 1]]

\* the code of loop_liftedTextConstr
mil_loop_liftedTextConstr(r, w) ==
    LET p == AddProps(w, "PROP_TEXT", r.item)
        seqb == Len(w.PRE_KIND[WS])
        newPre_prop == p.strings
        w1 == WsAppend(WsAppend(WsAppend(WsAppend(WsAppend(p.ws,
                 "PRE_PROP", newPre_prop),
                 "PRE_SIZE", proj(newPre_prop, 0)),
                 "PRE_LEVEL", proj(newPre_prop, 0)),
                 "PRE_KIND", proj(newPre_prop, "TEXT")),
                 "PRE_FRAG", proj(newPre_prop, WS))
        item == mark(r.item, seqb)
        w2 == [w1 EXCEPT !.WS_FRAG = @ \o item,
                         !.HEIGHT[WS] = IF @ > 1 THEN @ ELSE 1]
    IN IF Len(tunique(r.iter)) # Len(ord_uselect(r.kind, STR))
       THEN Outcome(r, w,
               "Text Constructor awaits exactly one string for each iter")
       ELSE Outcome(Table(r.iter, r.pos, item, proj(r.kind, NODE)), w2, "")

\* the sum of a column
RECURSIVE Sum(_)
Sum(s) == IF s = <<>> THEN 0 ELSE s[1] + Sum(Tail(s))

\* loop_liftedAttrConstr with the attributes bound to the first node of WS
mil_loop_liftedAttrConstrOwned(r, s, loop, w) ==
    LET test == tunique(r.iter)
        counts == count_grp(r.iter, test)
        difference == SelectSeq(loop,
                         LAMBDA i : \A k \in Idx(r.iter) : r.iter[k] # i)
        res_mu == merged_union(
                     [k \in Idx(r.iter) |-> <<r.iter[k], r.item[k]>>],
                     [k \in Idx(difference) |-> <<difference[k], EMPTY_STRING>>])
        item == IF Len(r.iter) # Len(loop)
                THEN [k \in Idx(res_mu) |-> res_mu[k][2]]
                ELSE r.item
        p == AddProps(w, "PROP_VAL", item)
        seqb == Len(w.ATTR_OWN[WS])
        attr_oid == p.strings
        qn == s.item
        w1 == WsAppend(WsAppend(WsAppend(WsAppend(p.ws,
                 "ATTR_PROP", attr_oid),
                 "ATTR_QN", qn),
                 "ATTR_FRAG", proj(qn, WS)),
                 "ATTR_OWN", proj(qn, 0))
    IN IF Len(test) # Len(ord_uselect(r.kind, STR))
       THEN Outcome(r, w, "there can be only one string for each iter in attribute construction")
       ELSE IF Len(counts) # Sum(counts)
       THEN Outcome(r, w, "more than 1 argument in attribute constructor")
       ELSE IF Len(s.iter) # Len(loop)
       THEN Outcome(r, w, "empty tagname is not allowed in attribute construction")
       ELSE Outcome(Table(s.iter, s.pos, mark(s.iter, seqb), proj(s.kind, ATTR)),
                    w1, "")

\* the code of loop_liftedAttrConstr: r is the content, s the saved name
mil_loop_liftedAttrConstr(r, s, loop, w) ==
    LET test == tunique(r.iter)
        counts == count_grp(r.iter, test)
        difference == SelectSeq(loop,
                         LAMBDA i : \A k \in Idx(r.iter) : r.iter[k] # i)
        res_mu == merged_union(
                     [k \in Idx(r.iter) |-> <<r.iter[k], r.item[k]>>],
                     [k \in Idx(difference) |-> <<difference[k], EMPTY_STRING>>])
        item == IF Len(r.iter) # Len(loop)
                THEN [k \in Idx(res_mu) |-> res_mu[k][2]]
                ELSE r.item
        p == AddProps(w, "PROP_VAL", item)
        seqb == Len(w.ATTR_OWN[WS])
        attr_oid == p.strings
        qn == s.item
        w1 == WsAppend(WsAppend(WsAppend(WsAppend(p.ws,
                 "ATTR_PROP", attr_oid),
                 "ATTR_QN", qn),
                 "ATTR_FRAG", proj(qn, WS)),
                 "ATTR_OWN", proj(qn, nil))
    IN IF Len(test) # Len(ord_uselect(r.kind, STR))
       THEN Outcome(r, w, "there can be only one string for each iter in attribute construction")
       ELSE IF Len(counts) # Sum(counts)
       THEN Outcome(r, w, "more than 1 argument in attribute constructor")
       ELSE IF Len(s.iter) # Len(loop)
       THEN Outcome(r, w, "empty tagname is not allowed in attribute construction")
       ELSE Outcome(Table(s.iter, s.pos, mark(s.iter, seqb), proj(s.kind, ATTR)),
                    w1, "")

\* the largest value of a column of numbers
RECURSIVE Max(_)
Max(s) ==
    IF Len(s) = 1 THEN s[1]
    ELSE LET m == Max(Tail(s)) IN IF s[1] > m THEN s[1] ELSE m

\* loop_liftedElemConstr: the rows of the subtree copies of the node items,
\* <<iter, size, level, kind, prop, frag, pre>>
ContentRows(r, w) ==
    LET oid_oid == get_type(r.kind, "NODE")
        node_items == leftfetchjoin(oid_oid, r.item)
        node_frags == [k \in Idx(oid_oid) |-> get_fragment(r.kind[oid_oid[k]])]
        res_scj == descendant_or_self(node_items, node_frags, w)
        ctx(k) == res_scj[k][1]
        fr(k) == node_frags[ctx(k)]
        dn(k) == res_scj[k][2] + 1
    IN [k \in Idx(res_scj) |->
          <<r.iter[oid_oid[ctx(k)]],
            w.PRE_SIZE[fr(k)][dn(k)],
            w.PRE_LEVEL[fr(k)][dn(k)]
               - w.PRE_LEVEL[fr(k)][node_items[ctx(k)] + 1] + 1,
            w.PRE_KIND[fr(k)][dn(k)],
            w.PRE_PROP[fr(k)][dn(k)],
            w.PRE_FRAG[fr(k)][dn(k)],
            res_scj[k][2]>>]

\* the rows of the new roots with the sizes of the node items summed up
\* without the node items themselves
RootRowsSizesOnly(r, s, w) ==
    LET oid_oid == get_type(r.kind, "NODE")
        contentRoot_size ==
            [k \in Idx(oid_oid) |->
                w.PRE_SIZE[get_fragment(r.kind[oid_oid[k]])]
                          [r.item[oid_oid[k]] + 1]]
        size_iter == leftfetchjoin(oid_oid, r.iter)
        root_iter == tunique(s.iter)
        iter_size ==
            [k \in Idx(root_iter) |->
                Sum(leftfetchjoin(ord_uselect(size_iter, root_iter[k]),
                                  contentRoot_size))]
    IN [k \in Idx(root_iter) |->
          <<root_iter[k], iter_size[k], 0, "ELEMENT", s.item[k], WS, nil>>]

\* loop_liftedElemConstr: the rows of the new roots when there are node
\* items: one for every iteration of the name, with the summed sizes
RootRows(r, s, w) ==
    LET oid_oid == get_type(r.kind, "NODE")
        contentRoot_size ==
            [k \in Idx(oid_oid) |->
                w.PRE_SIZE[get_fragment(r.kind[oid_oid[k]])]
                          [r.item[oid_oid[k]] + 1] + 1]
        size_iter == leftfetchjoin(oid_oid, r.iter)
        root_iter == tunique(s.iter)
        iter_size ==
            [k \in Idx(root_iter) |->
                Sum(leftfetchjoin(ord_uselect(size_iter, root_iter[k]),
                                  contentRoot_size))]
    IN [k \in Idx(root_iter) |->
          <<root_iter[k], iter_size[k], 0, "ELEMENT", s.item[k], WS, nil>>]

\* loop_liftedElemConstr: the rows of the new roots without node items
RootRowsOnly(s) ==
    [k \in Idx(s.item) |-> <<s.iter[k], 0, 0, "ELEMENT", s.item[k], WS, nil>>]

Col(rows, c) == [k \in Idx(rows) |-> rows[k][c]]

\* loop_liftedElemConstr: the rows of the new trees, roots and content
ElemTrees(r, s, w) ==
    IF Len(get_type(r.kind, "NODE")) # 0
    THEN merged_union(RootRows(r, s, w), ContentRows(r, w))
    ELSE RootRowsOnly(s)

\* loop_liftedElemConstr: the height of the new trees
ElemHeight(r, w) ==
    IF Len(get_type(r.kind, "NODE")) # 0
    THEN Max(Col(ContentRows(r, w), 3)) + 1
    ELSE 0

\* loop_liftedElemConstr: the pre values of the new roots
ElemRoots(merged, w) ==
    LET level0 == ord_uselect(Col(merged, 3), 0)
    IN [k \in Idx(level0) |-> Len(w.PRE_SIZE[WS]) + level0[k] - 1]

\* loop_liftedElemConstr: the new trees and the new fragments in the
\* working set
ElemInsertTrees(merged, height, w) ==
    [WsAppend(WsAppend(WsAppend(WsAppend(WsAppend(w,
        "PRE_LEVEL", Col(merged, 3)),
        "PRE_SIZE", Col(merged, 2)),
        "PRE_KIND", Col(merged, 4)),
        "PRE_PROP", Col(merged, 5)),
        "PRE_FRAG", Col(merged, 6))
     EXCEPT !.WS_FRAG = @ \o ElemRoots(merged, w),
            !.HEIGHT[WS] = IF @ > height THEN @ ELSE height]

\* loop_liftedElemConstr, 1. step: the attributes of the subtree copies;
\* seqb is the first new pre value, w1 the working set with the new trees
ElemCopyAttrs(merged, seqb, w1) ==
    LET preNew_preOld == Col(merged, 7)
        cont == Rows(Len(merged), LAMBDA k : preNew_preOld[k] # nil)
        oid_frag == leftfetchjoin(cont, Col(merged, 6))
        temp_attr == mvaljoin(leftfetchjoin(cont, preNew_preOld), oid_frag,
                              w1.ATTR_OWN)
        t_attr == [k \in Idx(temp_attr) |-> temp_attr[k][2]]
        t_frag == [k \in Idx(temp_attr) |-> oid_frag[temp_attr[k][1]]]
    IN WsAppend(WsAppend(WsAppend(WsAppend(w1,
          "ATTR_QN", mposjoin(t_attr, t_frag, w1.ATTR_QN)),
          "ATTR_PROP", mposjoin(t_attr, t_frag, w1.ATTR_PROP)),
          "ATTR_OWN", [k \in Idx(temp_attr) |->
                          seqb + cont[temp_attr[k][1]] - 1]),
          "ATTR_FRAG", t_frag)

\* loop_liftedElemConstr, 2. step: the attribute items are unique for an
\* iteration by name and fragment
ElemAttrsUnique(r, w2) ==
    LET attr == get_type(r.kind, "ATTR")
        attr_item == leftfetchjoin(attr, r.item)
        attr_frag == [k \in Idx(attr) |-> get_fragment(r.kind[attr[k]])]
    IN Len(unq(Table(leftfetchjoin(attr, r.iter), <<>>,
                     mposjoin(attr_item, attr_frag, w2.ATTR_QN),
                     mposjoin(attr_item, attr_frag, w2.ATTR_FRAG))))
       = Len(attr)

\* the 2. step with every attribute item bound to the first root
ElemRootAttrsFirstRoot(r, s, roots, w2) ==
    LET attr == get_type(r.kind, "ATTR")
        attr_item == leftfetchjoin(attr, r.item)
        attr_frag == [k \in Idx(attr) |-> get_fragment(r.kind[attr[k]])]
        own == leftjoin(leftfetchjoin(attr, r.iter), s.iter)
    IN WsAppend(WsAppend(WsAppend(WsAppend(w2,
          "ATTR_QN", mposjoin(attr_item, attr_frag, w2.ATTR_QN)),
          "ATTR_PROP", mposjoin(attr_item, attr_frag, w2.ATTR_PROP)),
          "ATTR_OWN", [k \in Idx(own) |-> roots[1]]),
          "ATTR_FRAG", attr_frag)

\* loop_liftedElemConstr, 2. step: the attribute items bound to the roots
ElemRootAttrs(r, s, roots, w2) ==
    LET attr == get_type(r.kind, "ATTR")
        attr_item == leftfetchjoin(attr, r.item)
        attr_frag == [k \in Idx(attr) |-> get_fragment(r.kind[attr[k]])]
        own == leftjoin(leftfetchjoin(attr, r.iter), s.iter)
    IN WsAppend(WsAppend(WsAppend(WsAppend(w2,
          "ATTR_QN", mposjoin(attr_item, attr_frag, w2.ATTR_QN)),
          "ATTR_PROP", mposjoin(attr_item, attr_frag, w2.ATTR_PROP)),
          "ATTR_OWN", [k \in Idx(own) |-> roots[own[k][2]]]),
          "ATTR_FRAG", attr_frag)

\* loop_liftedElemConstr: the result and the working set, from the roots
\* and the working set w2 of the 1. step
ElemOutcome(r, s, w, roots, w2) ==
    IF Len(r.kind) # Len(get_type(r.kind, "NODE")) + Len(get_type(r.kind, "ATTR"))
    THEN Outcome(r, w,
            "there can be only nodes and attributes in element construction")
    ELSE IF ~ElemAttrsUnique(r, w2)
    THEN Outcome(Table(s.iter, mark(roots, 0), roots, proj(roots, NODE)), w2,
            "attributes are not unique in element construction")
    ELSE Outcome(Table(s.iter, mark(roots, 0), roots, proj(roots, NODE)),
                 ElemRootAttrs(r, s, roots, w2), "")

\* the code of loop_liftedElemConstr: r is the content, s the saved name
mil_loop_liftedElemConstr(r, s, w) ==
    ElemOutcome(r, s, w, ElemRoots(ElemTrees(r, s, w), w),
                ElemCopyAttrs(ElemTrees(r, s, w), Len(w.PRE_SIZE[WS]),
                   ElemInsertTrees(ElemTrees(r, s, w), ElemHeight(r, w), w)))

(* ------------------------------------------------------------------ *)
(* The run of the code translate2MIL writes                            *)
(* ------------------------------------------------------------------ *)

\* the values an argument expression delivers: <<item, kind>>
BoolValues == {<<0, BOOL>>, <<1, BOOL>>}
AtomValues == {<<0, STR>>, <<1, STR>>, <<0, INT>>, <<1, INT>>, <<0, DBL>>,
               <<1, DBL>>, <<0, DEC>>, <<1, DEC>>} \cup BoolValues
NodeValues == {<<1, get_kind(1, "NODE")>>, <<2, get_kind(1, "NODE")>>}
AttrValues == {<<0, get_kind(1, "ATTR")>>, <<1, get_kind(1, "ATTR")>>,
               <<0, get_kind(2, "ATTR")>>}
ContentValues == NodeValues \cup AttrValues \cup {<<1, STR>>}
StringValues == {<<0, STR>>, <<1, STR>>, <<1, INT>>}
BodyValues == {<<1, STR>>, <<0, INT>>}

\* the iter columns of k rows over the iterations 1..n
SortedIters(n, k) ==
    {s \in [1..k -> 1..n] : \A i \in 1..(k - 1) : s[i] <= s[i + 1]}

MkTable(it, vs) ==
    Table(it, mark_grp(it), [i \in Idx(vs) |-> vs[i][1]],
          [i \in Idx(vs) |-> vs[i][2]])

\* the results of at most m rows an expression over the values V delivers
\* in a scope of n iterations
Tables(n, V, m) ==
    UNION {{MkTable(it, vs) : it \in SortedIters(n, k), vs \in [1..k -> V]} :
           k \in 0..m}

\* the working set and the value tables at the start of the query
InitWs == add_doc(add_doc(create_ws, "a"), "c")
InitVals ==
    [str |-> <<"", "a">>, int |-> <<0, 7>>, dbl |-> <<0, 15>>,
     dec |-> <<25, 0>>]

\* no location step has been translated
\* the node test of a step as the tree holds it: the kind of the node and,
\* for a name test, the namespace (NULL when missing) and the local name
NodeTestOf(kind, ns, loc) == [kind |-> kind, ns |-> ns, loc |-> loc]

NoStep == [kind |-> "", axis |-> "", test |-> NodeTestOf("", NULL, NULL),
           code |-> <<>>]

\* the run does not take part in the annotation of the tree
IdleRun ==
    /\ scope = <<>>
    /\ res = NilTable
    /\ saved = <<>>
    /\ ws = create_ws
    /\ vals = InitVals
    /\ ctl = <<>>
    /\ pc = "idle"
    /\ nvid = 0
    /\ err = ""
    /\ last = "idle"
    /\ arg = NilTable
    /\ step = NoStep
    /\ nops = 0

\* the annotation of the tree has been done when the code runs
IdleAnnot ==
    /\ nodes = <<>>
    /\ stack = <<>>
    /\ way = <<>>
    /\ counter = [i \in {FID, ACT_FID, VID} |-> 0]
    /\ num = <<>>
    /\ var = <<>>
    /\ var_usage = <<>>
    /\ vu = <<>>
    /\ out = <<>>
    /\ adone = TRUE

\* the scope of level 0 over n iterations, in which a let around the
\* expression has bound variable 0 to an integer
InitRun ==
    /\ IdleAnnot
    /\ \E n \in 0..MaxIter :
          LET loop == [i \in 1..n |-> i]
              l0 == Level(loop, loop, loop, mil_createNewVarTable, FALSE, {0})
          IN scope = <<append5(l0, mil_translateConst(loop, 1, INT), 0)>>
    /\ nvid = 1
    /\ res = NilTable
    /\ saved = <<>>
    /\ ws = InitWs
    /\ vals = InitVals
    /\ ctl = <<>>
    /\ pc = "expr"
    /\ err = ""
    /\ last = "init"
    /\ arg = NilTable
    /\ step = NoStep
    /\ nops = 0

\* an open construct: c the node kind, st the part of its code that has
\* run, shape which branches of an if-then-else are not c_empty, skip the
\* MIL variable skip, opened the iterations of the enclosing scope the
\* then-branch and the else-branch have run for
Open(c, st, shape, skip, opened) ==
    [c |-> c, st |-> st, shape |-> shape, skip |-> skip, opened |-> opened]

Top == ctl[1]
In(c) == ctl # <<>> /\ Top.c = c
Pop(s) == SubSeq(s, 1, Len(s) - 1)
SavedTop == saved[Len(saved)]
AllOfKind(r, k) == \A i \in Idx(r.kind) : r.kind[i] = k

\* a leaf of the tree is translated next / a node above the code that ran
Leaf == err = "" /\ pc = "expr"
Above == err = "" /\ pc = "done" /\ nops < MaxOps

\* a binder above the code that ran: also inside a for body or an if-branch
Binds ==
    /\ err = "" /\ pc = "done"
    /\ \/ nops < MaxOps
       \/ ctl # <<>> /\ Top.c \in {"for", "if"} /\ nops < MaxOps + MaxNest

\* the ERROR of the code written stops the program
Stop(msg) == err' = msg /\ pc' = "stop"

(* ---------------- leaves ------------------------------------------- *)

\* translate2MIL of an argument expression: any result it can deliver
operand ==
    /\ err = "" /\ pc = "expr"
    /\ \/ /\ last = "init"
          /\ res' \in Tables(Len(Cur.loop), AtomValues \cup NodeValues, MaxRows)
       \/ /\ In("elem") /\ last = "saveResult"
          /\ res' \in Tables(Len(Cur.loop), ContentValues, MaxRows)
       \/ /\ In("attr") /\ last = "saveResult"
          /\ res' \in Tables(Len(Cur.loop), StringValues, MaxOpnd)
       \/ /\ In("for") /\ last = "for_begin"
          /\ res' \in Tables(Len(Cur.loop), BodyValues, MaxOpnd)
    /\ pc' = "done" /\ last' = "operand" /\ arg' = NilTable /\ step' = NoStep
    /\ UNCHANGED <<scope, saved, ws, vals, ctl, nvid, err, nops, avars>>

\* case c_var
c_var ==
    /\ Leaf
    /\ \E v \in Cur.vis : res' = mil_translateVar(Cur, v)
    /\ pc' = "done" /\ last' = "c_var" /\ arg' = NilTable /\ step' = NoStep
    /\ UNCHANGED <<scope, saved, ws, vals, ctl, nvid, err, nops, avars>>

\* case c_empty
c_empty ==
    /\ Leaf
    /\ res' = mil_translateEmpty
    /\ pc' = "done" /\ last' = "c_empty" /\ arg' = NilTable /\ step' = NoStep
   
    /\ UNCHANGED <<scope, saved, ws, vals, ctl, nvid, err, nops, avars>>

\* insert (nil, v) into a table of values whose tail is a key, without the
\* check of the key
insertAgain(table, v) == Append(table, v)

\* insert (nil, v) into a table of values whose tail is a key
insert(table, v) ==
    IF \E i \in Idx(table) : table[i] = v THEN table ELSE Append(table, v)

\* the literals of the query
Literals ==
    {<<"str", "a">>, <<"str", "b">>, <<"str", "c">>, <<"int", 0>>,
     <<"dec", 0>>, <<"dbl", 15>>}

\* cases c_lit_str, c_lit_int, c_lit_dec, c_lit_dbl for the literal l
c_lit_of(l) ==
    /\ Leaf
    /\ LET table == insert(vals[l[1]], l[2])
           itemID == ord_uselect(table, l[2])[1] - 1
           kind == CASE l[1] = "str" -> STR [] l[1] = "int" -> INT
                     [] l[1] = "dec" -> DEC [] l[1] = "dbl" -> DBL
       IN /\ vals' = [vals EXCEPT ![l[1]] = table]
          /\ res' = mil_translateConst(Cur.loop, itemID, kind)
    /\ pc' = "done" /\ last' = "c_lit" /\ arg' = NilTable /\ step' = NoStep
    /\ UNCHANGED <<scope, saved, ws, ctl, nvid, err, nops, avars>>

c_lit == \E l \in Literals : c_lit_of(l)

\* cases c_true, c_false
c_true_false ==
    /\ Leaf
    /\ \E itemID \in {0, 1} : res' = mil_translateConst(Cur.loop, itemID, BOOL)
    /\ pc' = "done" /\ last' = "c_true" /\ arg' = NilTable /\ step' = NoStep
    /\ UNCHANGED <<scope, saved, ws, vals, ctl, nvid, err, nops, avars>>

\* case c_root
c_root ==
    /\ Leaf
    /\ res' = mil_translateConst(Cur.loop, 0, get_kind(ws.FRAG, "NODE"))
    /\ pc' = "done" /\ last' = "c_root" /\ arg' = NilTable /\ step' = NoStep
    /\ UNCHANGED <<scope, saved, ws, vals, ctl, nvid, err, nops, avars>>

\* case c_tag (the name of a constructor)
c_tag ==
    /\ Leaf
    /\ \E loc \in {"a", "n"} :
          LET t == mil_tag(ws, "", loc)
          IN /\ ws' = t.ws
             /\ res' = mil_translateConst(Cur.loop, t.itemID, QNAME)
    /\ pc' = "name" /\ last' = "c_tag" /\ arg' = NilTable /\ step' = NoStep
    /\ UNCHANGED <<scope, saved, vals, ctl, nvid, err, nops, avars>>

\* translateFunction of a function that is not built in: its arguments are
\* not translated
apply_other ==
    /\ Leaf
    /\ res' = mil_translateEmpty
    /\ pc' = "done" /\ last' = "fn:other" /\ arg' = NilTable /\ step' = NoStep
   
    /\ UNCHANGED <<scope, saved, ws, vals, ctl, nvid, err, nops, avars>>

(* ---------------- nodes with one argument -------------------------- *)

\* the nodes of a result are nodes of the working set
NodesExist(r) ==
    \A i \in Idx(r.kind) :
        r.kind[i].t = "NODE" =>
            /\ r.kind[i].f \in DOMAIN ws.PRE_SIZE
            /\ r.item[i] + 1 \in Idx(ws.PRE_SIZE[r.kind[i].f])

\* translateLocsteps, the switch over the kind of the step: the axis of the
\* primitive, or "" when the translation is given up
axis_of(kind) ==
    CASE kind = "c_ancestor" -> "ancestor"
      [] kind = "c_ancestor_or_self" -> "ancestor_or_self"
      [] kind = "c_attribute" -> "attribute"
      [] kind = "c_child" -> "child"
      [] kind = "c_descendant" -> "descendant"
      [] kind = "c_descendant_or_self" -> "descendant_or_self"
      [] kind = "c_following" -> "following"
      [] kind = "c_following_sibling" -> "following_sibling"
      [] kind = "c_parent" -> "parent"
      [] kind = "c_preceding" -> "preceding"
      [] kind = "c_preceding_sibling" -> "preceding_sibling"
      [] kind = "c_self" -> "attribute"
      [] OTHER -> ""

\* the kinds of the axis node of a c_locsteps node
StepKinds ==
    {"c_ancestor", "c_ancestor_or_self", "c_attribute", "c_child",
     "c_descendant", "c_descendant_or_self", "c_following",
     "c_following_sibling", "c_parent", "c_preceding", "c_preceding_sibling",
     "c_self", "c_nil"}

\* the node tests below an axis node: name tests with a missing, a wildcard
\* or a given namespace and a wildcard or a given local name, kind tests,
\* and a node that is no node test
NodeTests ==
    {NodeTestOf("c_namet", ns, loc) : ns \in {NULL, "*", "u"},
                                      loc \in {"*", "b"}}
      \cup {NodeTestOf(k, NULL, NULL) :
                k \in {"c_kind_node", "c_kind_elem", "c_kind_text", "c_nil"}}

\* the node test switch of translateLocsteps: the kind, ns and loc handed
\* to loop_liftedSCJ (NULL is the pointer 0), ok = FALSE for the default
test_of(t) ==
    LET args(kind, ns, loc) ==
            [ok |-> TRUE, kind |-> kind, ns |-> ns, loc |-> loc]
    IN CASE t.kind = "c_namet" ->
              args(NULL,
                   IF t.ns = NULL THEN "" ELSE IF t.ns = "*" THEN NULL
                                               ELSE t.ns,
                   IF t.loc # NULL /\ t.loc = "*" THEN NULL ELSE t.loc)
         [] t.kind = "c_kind_node" -> args(NULL, NULL, NULL)
         [] t.kind = "c_kind_comment" -> args("COMMENT", NULL, NULL)
         [] t.kind = "c_kind_text" -> args("TEXT", NULL, NULL)
         [] t.kind = "c_kind_pi" -> args("PI", NULL, NULL)
         [] t.kind = "c_kind_doc" -> args("DOCUMENT", NULL, NULL)
         [] t.kind = "c_kind_elem" -> args("ELEMENT", NULL, NULL)
         [] t.kind = "c_kind_attr" -> args("ATTRIBUTE", NULL, NULL)
         [] OTHER -> [ok |-> FALSE, kind |-> NULL, ns |-> NULL, loc |-> NULL]

\* one call of an external staircase join primitive in the emitted code:
\* loop_lifted_<axis>_step<variant>_joined (iter, item, frag, ws, filters)
ScjCall(axis, variant, filters) ==
    [axis |-> axis, variant |-> variant, filters |-> filters]

\* loop_liftedSCJ with the test for a local name ahead of the test for a
\* namespace and a local name
loop_liftedSCJLocBeforeNs(axis, kind, ns, loc) ==
    IF axis = "attribute" THEN <<>>
    ELSE IF kind # NULL
         THEN <<ScjCall(axis, "_with_kind_test", <<kind>>)>>
    ELSE IF loc # NULL
         THEN <<ScjCall(axis, "_with_loc_test", <<loc>>)>>
    ELSE IF ns # NULL /\ loc # NULL
         THEN <<ScjCall(axis, "_with_nsloc_test", <<ns, loc>>)>>
    ELSE IF ns # NULL
         THEN <<ScjCall(axis, "_with_ns_test", <<ns>>)>>
    ELSE <<ScjCall(axis, "", <<>>)>>

\* loop_liftedSCJ: the calls of external primitives in the code emitted
\* for a step (the attribute axis is written out with built-in operations)
loop_liftedSCJ(axis, kind, ns, loc) ==
    IF axis = "attribute" THEN <<>>
    ELSE IF kind # NULL
         THEN <<ScjCall(axis, "_with_kind_test", <<kind>>)>>
    ELSE IF ns # NULL /\ loc # NULL
         THEN <<ScjCall(axis, "_with_nsloc_test", <<ns, loc>>)>>
    ELSE IF loc # NULL
         THEN <<ScjCall(axis, "_with_loc_test", <<loc>>)>>
    ELSE IF ns # NULL
         THEN <<ScjCall(axis, "_with_ns_test", <<ns>>)>>
    ELSE <<ScjCall(axis, "", <<>>)>>

\* case c_locsteps (the staircase join reads the nodes of the working set)
c_locsteps ==
    /\ Above
    /\ NodesExist(res)
    /\ \E kind \in StepKinds, t \in NodeTests :
          LET axis == axis_of(kind)
              test == test_of(t)
          IN IF axis = ""
             THEN /\ Stop("illegal XPath axis in MIL-translation")
                  /\ step' = [kind |-> kind, axis |-> axis, test |-> t,
                              code |-> <<>>]
                  /\ UNCHANGED res
             ELSE IF ~test.ok
             THEN /\ Stop("illegal node test in MIL-translation")
                  /\ step' = [kind |-> kind, axis |-> axis, test |-> t,
                              code |-> <<>>]
                  /\ UNCHANGED res
             ELSE /\ step' = [kind |-> kind, axis |-> axis, test |-> t,
                              code |-> loop_liftedSCJ(axis, test.kind,
                                                      test.ns, test.loc)]
                  /\ res' = mil_translateLocsteps(axis, test.kind, test.ns,
                                                  test.loc, res)
                  /\ pc' = "done" /\ UNCHANGED err
    /\ last' = "c_locsteps" /\ arg' = NilTable /\ nops' = nops + 1
    /\ UNCHANGED <<scope, saved, ws, vals, ctl, nvid, avars>>

\* fn:doc (string?)
apply_doc ==
    /\ Above
    /\ AllOfKind(res, STR)
    /\ res' = fn_doc(res).res
    /\ ws' = fn_doc(res).ws
    /\ pc' = "done" /\ last' = "fn:doc" /\ arg' = NilTable /\ step' = NoStep /\ nops' = nops + 1
    /\ UNCHANGED <<scope, saved, vals, ctl, nvid, err, avars>>

\* pf:distinct-doc-order (node*)
apply_ddo ==
    /\ Above
    /\ IF Len(res.kind) # Len(get_type(res.kind, "NODE"))
       THEN /\ Stop("function pf:distinct-doc-order expects only nodes")
            /\ UNCHANGED res
       ELSE /\ res' = fn_ddo(res)
            /\ pc' = "done" /\ UNCHANGED err
    /\ last' = "pf:distinct-doc-order" /\ arg' = NilTable /\ step' = NoStep /\ nops' = nops + 1
    /\ UNCHANGED <<scope, saved, ws, vals, ctl, nvid, avars>>

\* fn:count (item*)
apply_count ==
    /\ Above
    /\ res' = fn_count(res, Cur.loop).res
    /\ vals' = [vals EXCEPT !.int = fn_count(res, Cur.loop).int]
    /\ pc' = "done" /\ last' = "fn:count" /\ arg' = NilTable /\ step' = NoStep /\ nops' = nops + 1
    /\ UNCHANGED <<scope, saved, ws, ctl, nvid, err, avars>>

\* fn:empty (item*)
apply_empty ==
    /\ Above
    /\ res' = fn_empty(res, Cur.loop)
    /\ pc' = "done" /\ last' = "fn:empty" /\ arg' = NilTable /\ step' = NoStep /\ nops' = nops + 1
    /\ UNCHANGED <<scope, saved, ws, vals, ctl, nvid, err, avars>>

\* fn:not (boolean)
apply_not ==
    /\ Above
    /\ AllOfKind(res, BOOL)
    /\ res' = fn_not(res)
    /\ pc' = "done" /\ last' = "fn:not" /\ arg' = NilTable /\ step' = NoStep /\ nops' = nops + 1
    /\ UNCHANGED <<scope, saved, ws, vals, ctl, nvid, err, avars>>

\* fn:boolean (item*)
apply_boolean ==
    /\ Above
    /\ res' = fn_boolean(res, Cur.loop)
    /\ pc' = "done" /\ last' = "fn:boolean" /\ arg' = res /\ step' = NoStep /\ nops' = nops + 1
    /\ UNCHANGED <<scope, saved, ws, vals, ctl, nvid, err, avars>>

\* case c_text
c_text ==
    /\ Above
    /\ LET o == mil_loop_liftedTextConstr(res, ws)
       IN /\ res' = o.res
          /\ ws' = o.ws
          /\ IF o.err # "" THEN Stop(o.err) ELSE pc' = "done" /\ UNCHANGED err
    /\ last' = "c_text" /\ arg' = res /\ step' = NoStep /\ nops' = nops + 1
    /\ UNCHANGED <<scope, saved, vals, ctl, nvid, avars>>

(* ---------------- let, sequence, for ------------------------------- *)

\* case c_let: the code between child[1] and child[2]
c_let ==
    /\ Binds
    /\ Len(res.iter) <= MaxOpnd
    /\ \E used \in BOOLEAN :
          scope' = IF used
                   THEN [mil_insertVar(scope, Len(scope), res, nvid)
                           EXCEPT ![Len(scope)].vis = @ \cup {nvid}]
                   ELSE scope
    /\ nvid' = nvid + 1
    /\ pc' = "expr" /\ last' = "c_let" /\ arg' = NilTable /\ step' = NoStep /\ nops' = nops + 1
    /\ UNCHANGED <<res, saved, ws, vals, ctl, err, avars>>

\* case c_seq: saveResult between the children, neither of them c_empty
c_seq_save ==
    /\ Above
    /\ last # "c_empty"
    /\ Len(res.iter) <= MaxOpnd
    /\ saved' = Append(saved, res)
    /\ res' = NilTable
    /\ ctl' = <<Open("seq", "", "", 0, <<>>)>> \o ctl
    /\ pc' = "expr" /\ last' = "saveResult" /\ arg' = NilTable /\ step' = NoStep /\ nops' = nops + 1
    /\ UNCHANGED <<scope, ws, vals, nvid, err, avars>>

\* case c_seq: translateSeq and deleteResult
c_seq_end ==
    /\ err = "" /\ pc = "done" /\ In("seq")
    /\ last # "c_empty"
    /\ res' = mil_translateSeq(SavedTop, res)
    /\ saved' = Pop(saved)
    /\ ctl' = Tail(ctl)
    /\ last' = "c_seq" /\ arg' = NilTable /\ step' = NoStep
    /\ UNCHANGED <<scope, ws, vals, pc, nvid, err, nops, avars>>

\* case c_for: the code between child[2] and child[3]; X are the variables
\* getExpanded finds for the for (none or all of those in scope), use and
\* pos say which of the variable and the positional variable are used
c_for_begin ==
    /\ Above
    /\ Len(res.iter) <= MaxOpnd
    /\ \E X \in {{}, Cur.vis}, use \in BOOLEAN, pos \in BOOLEAN :
          LET outer == res.iter
              inner == mark(res.iter, 1)
              r == Table(inner, proj(inner, 1), res.item, res.kind)
              expOid == Rows(Len(Cur.v_vid), LAMBDA e : Cur.v_vid[e] \in X)
              env == IF Len(expOid) # 0
                     THEN mil_expand_join(Cur, expOid, outer, inner)
                     ELSE mil_createNewVarTable
              l1 == Level(inner, inner, outer, env, FALSE,
                          X \cup (IF use THEN {nvid} ELSE {})
                            \cup (IF pos THEN {nvid + 1} ELSE {}))
              sc1 == Append(scope, l1)
              sc2 == IF use THEN mil_insertVar(sc1, Len(sc1), r, nvid)
                     ELSE sc1
              ints == ints_cE(r)
              int_values == addValues(vals.int, ints)
              e == Table(r.iter, r.pos, Offsets(int_values, ints),
                         proj(r.kind, INT))
          IN /\ scope' = IF pos THEN mil_insertVar(sc2, Len(sc2), e, nvid + 1)
                         ELSE sc2
             /\ vals' = IF pos THEN [vals EXCEPT !.int = int_values] ELSE vals
             /\ res' = IF pos THEN e ELSE r
    /\ nvid' = nvid + 2
    /\ ctl' = <<Open("for", "", "", 0, <<>>)>> \o ctl
    /\ pc' = "expr" /\ last' = "for_begin" /\ arg' = NilTable /\ step' = NoStep /\ nops' = nops + 1
    /\ UNCHANGED <<saved, ws, err, avars>>

\* case c_for: mapBack and cleanUpLevel
c_for_end ==
    /\ err = "" /\ pc = "done" /\ In("for")
    /\ res' = mil_mapBack(res, Cur.inner, Cur.outer)
    /\ scope' = Pop(scope)
    /\ ctl' = Tail(ctl)
    /\ last' = "c_for" /\ arg' = NilTable /\ step' = NoStep
    /\ UNCHANGED <<saved, ws, vals, pc, nvid, err, nops, avars>>

(* ---------------- if-then-else ------------------------------------- *)

\* the value of the MIL variable skip for the saved condition b
skip_of(b) ==
    IF Len(ord_uselect(b.item, 1)) = Len(b.item) THEN 2
    ELSE IF Len(ord_uselect(b.item, 1)) = 0 THEN 1
    ELSE 0

\* case c_ifthenelse: saveResult of the condition, selected and skip
c_if_cond ==
    /\ Above
    /\ AllOfKind(res, BOOL)
    /\ saved' = Append(saved, res)
    /\ res' = NilTable
    /\ \E shape \in {"then", "else", "both"} :
          ctl' = <<Open("if", "cond", shape, skip_of(res), <<<<>>, <<>>>>)>>
                   \o ctl
    /\ pc' = "if" /\ last' = "if_cond" /\ arg' = NilTable /\ step' = NoStep /\ nops' = nops + 1
    /\ UNCHANGED <<scope, ws, vals, nvid, err, avars>>

\* translateIfThen down to the call of translate2MIL: the new scope and
\* PHASE 1; without PHASE 2 the branch is translateEmpty
c_if_branch ==
    /\ err = "" /\ pc = "if" /\ In("if") /\ Top.st \in {"cond", "mid"}
    /\ LET then == Top.st = "cond" /\ Top.shape \in {"then", "both"}
           b == IF Top.st = "mid" THEN saved[Len(saved) - 1] ELSE SavedTop
           selected == ord_uselect(b.item, IF then THEN 1 ELSE 0)
           outer == leftfetchjoin(selected, b.iter)
           inner == mark(outer, 1)
           expOid == [e \in Idx(Cur.v_iter) |-> e]
           l1 == IF Top.skip = 0
                 THEN Level(inner, inner, outer,
                            mil_expand_join(Cur, expOid, outer, inner),
                            FALSE, Cur.vis)
                 ELSE [Cur EXCEPT !.alias = TRUE]
           phase2 == IF then THEN Top.skip # 1 ELSE Top.skip # 2
       IN /\ scope' = Append(scope, l1)
          /\ ctl' = [ctl EXCEPT
                       ![1].st = IF then THEN "then" ELSE "else",
                       ![1].opened[IF then THEN 1 ELSE 2] =
                           IF Top.skip = 0 THEN outer
                           ELSE IF phase2 THEN Cur.loop ELSE <<>>]
          /\ res' = IF phase2 THEN NilTable ELSE mil_translateEmpty
          /\ pc' = IF phase2 THEN "expr" ELSE "skipped"
          /\ last' = IF then THEN "then_begin" ELSE "else_begin"
    /\ arg' = NilTable /\ step' = NoStep
    /\ UNCHANGED <<saved, ws, vals, nvid, err, nops, avars>>

\* translateIfThen from PHASE 3 on: mapBack and cleanUpLevel
c_if_branch_end ==
    /\ err = "" /\ pc \in {"done", "skipped"} /\ In("if")
    /\ Top.st \in {"then", "else"}
    /\ Top.shape = "both" => last # "c_empty"
    /\ res' = IF Top.skip = 0 THEN mil_mapBack(res, Cur.inner, Cur.outer)
              ELSE res
    /\ scope' = Pop(scope)
    /\ ctl' = [ctl EXCEPT ![1].st = IF Top.st = "then" /\ Top.shape = "both"
                                    THEN "thenend" ELSE "end"]
    /\ pc' = "if"
    /\ last' = IF Top.st = "then" THEN "then_end" ELSE "else_end"
    /\ arg' = NilTable /\ step' = NoStep
    /\ UNCHANGED <<saved, ws, vals, nvid, err, nops, avars>>

\* case c_ifthenelse: saveResult of the then-branch
c_if_save ==
    /\ err = "" /\ pc = "if" /\ In("if") /\ Top.st = "thenend"
    /\ saved' = Append(saved, res)
    /\ res' = NilTable
    /\ ctl' = [ctl EXCEPT ![1].st = "mid"]
    /\ last' = "saveResult" /\ arg' = NilTable /\ step' = NoStep
    /\ UNCHANGED <<scope, ws, vals, pc, nvid, err, nops, avars>>

\* case c_ifthenelse: translateSeq of the branches and the deleteResults
c_if_end ==
    /\ err = "" /\ pc = "if" /\ In("if") /\ Top.st = "end"
    /\ res' = IF Top.shape = "both" THEN mil_translateSeq(SavedTop, res)
              ELSE res
    /\ saved' = IF Top.shape = "both" THEN Pop(Pop(saved)) ELSE Pop(saved)
    /\ ctl' = Tail(ctl)
    /\ pc' = "done" /\ last' = "c_ifthenelse" /\ arg' = NilTable /\ step' = NoStep
    /\ UNCHANGED <<scope, ws, vals, nvid, err, nops, avars>>

(* ---------------- constructors ------------------------------------- *)

\* the name of a constructor is one QName or string for an iteration
OneName(r) ==
    /\ Len(tunique(r.iter)) = Len(r.iter)
    /\ \A i \in Idx(r.kind) : r.kind[i] \in {STR, QNAME}

\* cases c_elem and c_attr: castQName of a name that is not a c_tag, and
\* saveResult
SaveName(c) ==
    /\ err = "" /\ pc \in {"done", "name"} /\ nops < MaxOps
    /\ OneName(res)
    /\ LET o == IF pc = "name" THEN Outcome(res, ws, "")
                ELSE mil_castQName(res, ws)
       IN /\ ws' = o.ws
          /\ saved' = Append(saved, o.res)
    /\ res' = NilTable
    /\ ctl' = <<Open(c, "", "", 0, <<>>)>> \o ctl
    /\ pc' = "expr" /\ last' = "saveResult" /\ arg' = NilTable /\ step' = NoStep /\ nops' = nops + 1
    /\ UNCHANGED <<scope, vals, nvid, err, avars>>

c_elem_save == SaveName("elem")

c_attr_save == SaveName("attr")

\* the end of a constructor: o is the outcome of its code
Constructed(o, label) ==
    /\ res' = o.res
    /\ ws' = o.ws
    /\ IF o.err # "" THEN Stop(o.err) /\ UNCHANGED <<saved, ctl>>
       ELSE /\ saved' = Pop(saved)
            /\ ctl' = Tail(ctl)
            /\ UNCHANGED <<pc, err>>
    /\ last' = label /\ arg' = res /\ step' = NoStep
    /\ UNCHANGED <<scope, vals, nvid, nops, avars>>

\* case c_elem: loop_liftedElemConstr and deleteResult
c_elem_end ==
    /\ err = "" /\ pc = "done" /\ In("elem")
    /\ NodesExist(res)
    /\ Constructed(mil_loop_liftedElemConstr(res, SavedTop, ws), "c_elem")

\* case c_attr: loop_liftedAttrConstr and deleteResult
c_attr_end ==
    /\ err = "" /\ pc = "done" /\ In("attr")
    /\ Constructed(mil_loop_liftedAttrConstr(res, SavedTop, Cur.loop, ws),
                   "c_attr")

NextRun ==
    \/ operand
    \/ c_var
    \/ c_empty
    \/ c_lit
    \/ c_true_false
    \/ c_root
    \/ c_tag
    \/ apply_other
    \/ c_locsteps
    \/ apply_doc
    \/ apply_ddo
    \/ apply_count
    \/ apply_empty
    \/ apply_not
    \/ apply_boolean
    \/ c_text
    \/ c_let
    \/ c_seq_save
    \/ c_seq_end
    \/ c_for_begin
    \/ c_for_end
    \/ c_if_cond
    \/ c_if_branch
    \/ c_if_branch_end
    \/ c_if_save
    \/ c_if_end
    \/ c_elem_save
    \/ c_elem_end
    \/ c_attr_save
    \/ c_attr_end

SpecRun == InitRun /\ [][NextRun]_vars
(* ------------------------------------------------------------------ *)
(* append_lev                                                          *)
(* ------------------------------------------------------------------ *)

NumCalls == Cardinality({i \in 1..Len(stack) : stack[i].op = "call"})

\* a node with a children fits into the bound of the tree
Fits(a) == Len(nodes) + NumCalls + a <= MaxNodes

Frame(op, n, slot, vis) == [op |-> op, n |-> n, slot |-> slot, vis |-> vis]

NewNode(kind, ref, posvar) ==
    [kind |-> kind, parent |-> stack[1].n, slot |-> stack[1].slot,
     ref |-> ref, posvar |-> posvar]

AtCall == ~adone /\ stack # <<>> /\ stack[1].op = "call"

IncFidStale(cnt) == cnt

\* (*(int *) PFarray_at (counter, FID))++
IncFid(cnt) == [cnt EXCEPT ![FID] = @ + 1]

IncVid(cnt) == [cnt EXCEPT ![VID] = @ + 1]

\* c->kind == c_var
VisitVar ==
    /\ AtCall
    /\ Fits(0)
    /\ \E v \in stack[1].vis :
          /\ nodes' = Append(nodes, NewNode("c_var", v, FALSE))
          /\ var_usage' = var_usage \o update_expansion(way, var[v])
          /\ var' = [var EXCEPT ![v].used = 1]
    /\ stack' = Tail(stack)
    /\ UNCHANGED <<way, counter, num, vu, out, adone, rvars>>

\* c->kind == c_for: the recursion into child[2]
VisitFor ==
    /\ AtCall
    /\ Fits(2)
    /\ \E pv \in BOOLEAN :
          nodes' = Append(nodes, NewNode("c_for", <<>>, pv))
    /\ LET n == Len(nodes) + 1
           vis == stack[1].vis
       IN stack' = <<Frame("call", n, 2, vis), Frame("for_bind", n, 0, vis)>>
                   \o Tail(stack)
    /\ UNCHANGED <<way, counter, num, var, var_usage, vu, out, adone, rvars>>

\* c->kind == c_for: between the recursions into child[2] and child[3]
ForBind ==
    /\ ~adone /\ stack # <<>> /\ stack[1].op = "for_bind"
    /\ LET n == stack[1].n
           c1 == IncFid(counter)
           fid == c1[FID]
           act_fid == fid
           vid == c1[VID]
           c2 == IncVid(c1)
           pv == nodes[n].posvar
           c3 == IF pv THEN IncVid(c2) ELSE c2
           v0 == VarOf(n) :> [base |-> act_fid, vid |-> vid, used |-> 0]
           v1 == IF pv
                 THEN PosOf(n) :> [base |-> act_fid, vid |-> c2[VID], used |-> 0]
                 ELSE <<>>
           vis == stack[1].vis \cup {VarOf(n)}
                    \cup (IF pv THEN {PosOf(n)} ELSE {})
       IN /\ counter' = c3
          /\ num' = (n :> fid) @@ num
          /\ way' = PFarray_add(way, fid)
          /\ var' = IF pv THEN v0 @@ v1 @@ var ELSE v0 @@ var
          /\ stack' = <<Frame("call", n, 3, vis), Frame("for_leave", n, 0, {})>>
                      \o Tail(stack)
    /\ UNCHANGED <<nodes, var_usage, vu, out, adone, rvars>>

\* c->kind == c_for: after the recursion into child[3]
ForLeave ==
    /\ ~adone /\ stack # <<>> /\ stack[1].op = "for_leave"
    /\ counter' = [counter EXCEPT ![ACT_FID] = PFarray_top(way)]
    /\ way' = PFarray_del(way)
    /\ stack' = Tail(stack)
    /\ UNCHANGED <<nodes, num, var, var_usage, vu, out, adone, rvars>>

\* c->kind == c_let: the recursion into child[1]
VisitLet ==
    /\ AtCall
    /\ Fits(2)
    /\ nodes' = Append(nodes, NewNode("c_let", <<>>, FALSE))
    /\ LET n == Len(nodes) + 1
           vis == stack[1].vis
       IN stack' = <<Frame("call", n, 1, vis), Frame("let_bind", n, 0, vis)>>
                   \o Tail(stack)
    /\ UNCHANGED <<way, counter, num, var, var_usage, vu, out, adone, rvars>>

\* c->kind == c_let: between the recursions into child[1] and child[2]
LetBind ==
    /\ ~adone /\ stack # <<>> /\ stack[1].op = "let_bind"
    /\ LET n == stack[1].n
           act_fid == counter[ACT_FID]
           vid == counter[VID]
       IN /\ var' = (VarOf(n) :> [base |-> act_fid, vid |-> vid, used |-> 0])
                    @@ var
          /\ counter' = IncVid(counter)
          /\ stack' = <<Frame("call", n, 2, stack[1].vis \cup {VarOf(n)})>>
                      \o Tail(stack)
    /\ UNCHANGED <<nodes, way, num, var_usage, vu, out, adone, rvars>>

\* any other node kind: the recursion into all children, left to right
VisitOther ==
    /\ AtCall
    /\ \E kind \in OtherKinds :
          /\ Fits(Arity(kind))
          /\ nodes' = Append(nodes, NewNode(kind, <<>>, FALSE))
          /\ LET n == Len(nodes) + 1
                 vis == stack[1].vis
             IN stack' = [i \in 1..Arity(kind) |-> Frame("call", n, i - 1, vis)]
                         \o Tail(stack)
    /\ UNCHANGED <<way, counter, num, var, var_usage, vu, out, adone, rvars>>

\* a node without children
VisitLeaf ==
    /\ AtCall
    /\ Fits(0)
    /\ \E kind \in LeafKinds :
          nodes' = Append(nodes, NewNode(kind, <<>>, FALSE))
    /\ stack' = Tail(stack)
    /\ UNCHANGED <<way, counter, num, var, var_usage, vu, out, adone, rvars>>

\* PFprintMILtemp after append_lev has returned
Finish ==
    /\ ~adone /\ stack = <<>>
    /\ vu' = SortedUsage(var_usage)
    /\ out' = ToF(translate2MIL(0, 0, 1))
    /\ adone' = TRUE
    /\ UNCHANGED <<nodes, stack, way, counter, num, var, var_usage, rvars>>

InitAnnot ==
    /\ nodes = <<>>
    /\ stack = <<Frame("call", 0, 0, {})>>
    /\ way = <<>>
    /\ counter = [i \in {FID, ACT_FID, VID} |-> 0]
    /\ num = <<>>
    /\ var = <<>>
    /\ var_usage = <<>>
    /\ vu = <<>>
    /\ out = <<>>
    /\ adone = FALSE
    /\ IdleRun

NextAnnot ==
    \/ VisitVar
    \/ VisitFor
    \/ ForBind
    \/ ForLeave
    \/ VisitLet
    \/ LetBind
    \/ VisitOther
    \/ VisitLeaf
    \/ Finish

SpecAnnot == InitAnnot /\ [][NextAnnot]_vars

(* ------------------------------------------------------------------ *)
(* Claims about the annotator and the emitted code                     *)
(* ------------------------------------------------------------------ *)

\* the node that binds variable v, and the slot of it that is v's scope
Binder(v) == v[1]
ScopeSlot(n) == IF nodes[n].kind = "c_for" THEN 3 ELSE 2

\* the for node s is opened between the binding of v and the reference r
Between(s, r, v) ==
    /\ s \in ForNodes
    /\ InBody(r, s)
    /\ InSlot(s, Binder(v), ScopeSlot(Binder(v)))

\* the for nodes whose loop body contains n
EnclosingFors(n) == {s \in ForNodes : InBody(n, s)}

\* the fid of the innermost for node whose loop body contains n, else 0
InnermostFid(n) ==
    IF EnclosingFors(n) = {} THEN 0
    ELSE num[CHOOSE s \in EnclosingFors(n) :
                \A t \in EnclosingFors(n) : t = s \/ InBody(s, t)]

SeqNodes == {n \in NodeIds : nodes[n].kind = "c_seq"}

\* C1: translating seq(empty, X) and translating seq(X, empty) each emit
\* exactly the code of translating X alone.
C1_SeqEmptyIdentity ==
    adone =>
      \A c \in SeqNodes :
         /\ nodes[Child(c, 0)].kind = "c_empty"
              => translate2MIL(0, 0, c) = translate2MIL(0, 0, Child(c, 1))
         /\ nodes[Child(c, 1)].kind = "c_empty"
              => translate2MIL(0, 0, c) = translate2MIL(0, 0, Child(c, 0))

\* C2 as stated: the scope id of a for node is strictly greater than that of
\* every for node that is its ancestor, in the body or in the source.
C2_AncestorOrder ==
    \A a \in ForNodes \cap DOMAIN num : \A d \in ForNodes \cap DOMAIN num :
       Below(d, a) => num[d] > num[a]

\* C2 amended: the scope id of a for node is strictly greater than that of
\* every for node whose loop body contains it, and strictly smaller than
\* that of every for node whose source expression contains it.
C2_BodyOrder ==
    \A a \in ForNodes \cap DOMAIN num : \A d \in ForNodes \cap DOMAIN num :
       /\ InBody(d, a) => num[d] > num[a]
       /\ InSource(d, a) => num[d] < num[a]

C2_Witness ==
    /\ adone
    /\ \E a \in ForNodes : \E d \in ForNodes : \E e \in ForNodes :
          InBody(d, a) /\ InSource(e, a)

\* C3: for every reference r to a variable v and every for-scope s opened
\* between the binding of v and r, the pair (vid(v), fid(s)) was inserted
\* into var_usage and occurs exactly once after unique.
C3_UsageComplete ==
    adone =>
      \A r \in VarNodes : \A s \in ForNodes :
         Between(s, r, nodes[r].ref) =>
            LET vid == var[nodes[r].ref].vid
            IN /\ \E i \in 1..Len(var_usage) : var_usage[i] = <<vid, num[s]>>
               /\ Cardinality({i \in 1..Len(vu) : vu[i] = <<num[s], vid>>}) = 1

C3_Witness ==
    /\ adone
    /\ Len(vu) < Len(var_usage)
    /\ \E r \in VarNodes : \E s \in ForNodes : \E t \in ForNodes :
          s # t /\ Between(s, r, nodes[r].ref) /\ Between(t, r, nodes[r].ref)

\* C4: no pair (v, s) is recorded for a for node s whose loop body contains
\* the binding of v.
C4_OnlyLaterScopes ==
    \A i \in 1..Len(var_usage) :
       \A v \in DOMAIN var : \A s \in ForNodes \cap DOMAIN num :
          (var[v].vid = var_usage[i][1] /\ num[s] = var_usage[i][2])
             => ~InBody(Binder(v), s)

\* C5: the base of a let-bound variable is the scope id of the innermost
\* for node whose loop body contains the let node, or 0 when there is none.
C5_LetBase ==
    \A l \in LetNodes :
       VarOf(l) \in DOMAIN var => var[VarOf(l)].base = InnermostFid(l)


\* what a piece of emitted code tells about the node it was written for
Mark(t) == IF t[2] = "translateVar" THEN <<t[2], t[3][2]>> ELSE <<t[2]>>

\* the pieces of code that are written once for a node
Marks(code) ==
    LET m == SelectSeq(code,
                 LAMBDA t : t[2] \in {"translateVar", "{lit_str",
                                      "{for-translation", "}for-translation",
                                      "{ifthenelse-translation",
                                      "loop_liftedElemConstr",
                                      "loop_liftedAttrConstr"})
    IN [i \in 1..Len(m) |-> Mark(m[i])]

RECURSIVE EvalOrder(_)
\* the nodes below c in evaluation order, left to right and depth first: a
\* leaf as it is evaluated, a for after its source and after its body, an
\* if-then-else after its condition, a constructor after its name and its
\* content; the right child of a sequence whose left child is the empty
\* sequence is not translated at all
EvalOrder(c) ==
    LET kind == nodes[c].kind
        ch(i) == Child(c, i)
    IN CASE kind = "c_var" -> <<<<"translateVar", var[nodes[c].ref].vid>>>>
         [] kind = "c_lit_str" -> <<<<"{lit_str">>>>
         [] kind = "c_seq" ->
              IF nodes[ch(0)].kind = "c_empty" THEN <<>>
              ELSE EvalOrder(ch(0)) \o EvalOrder(ch(1))
         [] kind = "c_let" -> EvalOrder(ch(1)) \o EvalOrder(ch(2))
         [] kind = "c_for" ->
              EvalOrder(ch(2)) \o <<<<"{for-translation">>>>
              \o EvalOrder(ch(3)) \o <<<<"}for-translation">>>>
         [] kind = "c_ifthenelse" ->
              EvalOrder(ch(0)) \o <<<<"{ifthenelse-translation">>>>
              \o EvalOrder(ch(1)) \o EvalOrder(ch(2))
         [] kind = "c_elem" ->
              EvalOrder(ch(0)) \o EvalOrder(ch(1))
              \o <<<<"loop_liftedElemConstr">>>>
         [] kind = "c_attr" ->
              EvalOrder(ch(0)) \o EvalOrder(ch(1))
              \o <<<<"loop_liftedAttrConstr">>>>
         [] OTHER -> <<>>

\* C22: the pieces of code written for the nodes of the tree come in
\* evaluation order: source before body, bound expression before body, left
\* before right, condition before then before else, name before content
\* before the construction; so the constructors append to the working set
\* in the left-to-right, depth-first order of the tree
C22_EvalOrder == adone => Marks(out) = EvalOrder(1)

\* an element constructor whose content is an element constructor has been
\* translated: the inner construction is written between the content of the
\* inner and the construction of the outer one
C22_Witness ==
    /\ adone
    /\ \E i, j, k \in 1..Len(out) :
          /\ i < j /\ j < k
          /\ out[i][2] = "{lit_str"
          /\ out[j][2] = "loop_liftedElemConstr" /\ out[j][3] = <<2>>
          /\ out[k][2] = "loop_liftedElemConstr" /\ out[k][3] = <<1>>

\* the braces of a piece of emitted code that are not closed inside the
\* piece itself: 1 for an opening and -1 for a closing one, in text order
Braces(t) ==
    CASE t[2] \in {"saveResult", "insertVar{", "{translateIfThen",
                   "if(skip=0){", "if(skip!=1){", "if(skip!=2){",
                   "{for-translation", "if(expOid.count!=0){",
                   "{ifthenelse-translation", "{lit_str"} -> <<1>>
      [] t[2] \in {"deleteResult", "}insertVar", "expOid:=nil}", "}",
                   "}translateIfThen", "}expOid:=nil", "}for-translation",
                   "}ifthenelse-translation", "itemID:=nil}"} -> <<-1>>
      [] t[2] = "}else{" -> <<-1, 1>>
      [] OTHER -> <<>>

RECURSIVE AllBraces(_)
AllBraces(code) ==
    IF code = <<>> THEN <<>> ELSE Braces(code[1]) \o AllBraces(Tail(code))

RECURSIVE Balanced(_, _)
\* a text of braces closes what it opens, at depth d
Balanced(b, d) ==
    IF b = <<>> THEN d = 0
    ELSE d + b[1] >= 0 /\ Balanced(Tail(b), d + b[1])

\* C28: the text written to f for every node of the tree has balanced
\* braces: every block the translation of the node opens is closed in f
\* before the translation of the node returns
C28_Balanced ==
    adone =>
       \A c \in NodeIds :
          Balanced(AllBraces(ToF(translate2MIL(0, 0, c))), 0)

(* ------------------------------------------------------------------ *)
(* The claims about the code that runs                                  *)
(* ------------------------------------------------------------------ *)

\* the four columns of a result have the same length
Aligned(r) ==
    /\ Len(r.iter) = Len(r.pos)
    /\ Len(r.iter) = Len(r.item)
    /\ Len(r.iter) = Len(r.kind)

\* C9: after the code of any supported node kind has run, the columns iter,
\* pos, item and kind of the result have the same length (row i of each
\* describes the same item), and so have the columns of every saved result
C9_ColumnsAligned ==
    (err = "" /\ pc \in {"done", "name"}) =>
        /\ Aligned(res)
        /\ \A k \in Idx(saved) : Aligned(saved[k])

\* the effective boolean value (0@0 or 1@0) of the items of iteration it of
\* the result r
EBV(r, it) ==
    LET rows == ord_uselect(r.iter, it)
        k == rows[1]
        ref == r.item[k] + 1
    IN IF Len(rows) = 0 THEN 0
       ELSE IF Len(rows) >= 2 THEN 1
       ELSE CASE r.kind[k] = BOOL -> r.item[k]
              [] r.kind[k] = STR -> bool_map(vals.str[ref] # "")
              [] r.kind[k] = INT -> bool_map(vals.int[ref] # 0)
              [] r.kind[k] = DBL -> bool_map(vals.dbl[ref] # 0)
              [] r.kind[k] = DEC -> bool_map(vals.dec[ref] # 0)
              [] OTHER -> 1

\* C6: the code of fn:boolean yields exactly one BOOL row for every iteration
\* of the current loop: false for no item, the item itself for one boolean,
\* false for one "", one integer 0, one double 0.0 or one decimal 0.0, true
\* for any other single item and for two or more items
C6_BooleanValue ==
    last = "fn:boolean" =>
        /\ res.iter = Cur.loop
        /\ res.pos = proj(Cur.loop, 1)
        /\ res.kind = proj(Cur.loop, BOOL)
        /\ res.item = [i \in Idx(Cur.loop) |-> EBV(arg, Cur.loop[i])]

\* fn:boolean has run on an iteration of two items and an iteration of one
\* decimal 0.0
C6_Witness ==
    /\ last = "fn:boolean"
    /\ arg.iter = <<1, 1, 2>>
    /\ arg.kind[3] = DEC /\ vals.dec[arg.item[3] + 1] = 0
    /\ res.item = <<1, 0>>

\* the elements of a sequence
Range(s) == {s[i] : i \in Idx(s)}
NoDuplicates(s) == \A i \in Idx(s), j \in Idx(s) : s[i] = s[j] => i = j

\* C7: when the condition of an if-then-else holds at least one boolean for
\* every iteration, the iterations opened for the then-branch and those
\* opened for the else-branch are together all iterations, and no iteration
\* is opened more than once within one branch
C7_BranchPartition ==
    (In("if") /\ Top.shape = "both" /\ last = "else_begin"
        /\ Range(saved[Len(saved) - 1].iter) = Range(scope[Len(scope) - 1].loop))
    => /\ Range(Top.opened[1]) \cup Range(Top.opened[2])
             = Range(scope[Len(scope) - 1].loop)
       /\ NoDuplicates(Top.opened[1])
       /\ NoDuplicates(Top.opened[2])

\* C8: the rows of the then-branch of an if-then-else belong to iterations
\* whose condition holds a true item; an iteration whose condition is empty
\* has no row of the then-branch
C8_ThenRowsOnlyForTrue ==
    (In("if") /\ last = "then_end")
    => \A k \in Idx(res.iter) :
          \E j \in Idx(SavedTop.iter) :
              SavedTop.iter[j] = res.iter[k] /\ SavedTop.item[j] = 1

\* a location step has delivered two nodes or more
C9_Witness ==
    /\ last = "c_locsteps"
    /\ Len(res.iter) >= 2
    /\ Aligned(res)

\* C10: element construction makes exactly one new root for every iteration
\* of the saved name, returns it as the single NODE item of the iteration,
\* and makes exactly one new attribute entry owned by that root for every
\* attribute item of the content of the iteration
C10_ElemConstr ==
    [][(c_elem_end /\ err' = "") =>
        LET name == SavedTop
            newPre == (Len(ws.PRE_LEVEL[WS]) + 1)..Len(ws'.PRE_LEVEL[WS])
            newAttr == (Len(ws.ATTR_OWN[WS]) + 1)..Len(ws'.ATTR_OWN[WS])
            newRoots == {p \in newPre : ws'.PRE_LEVEL[WS][p] = 0}
        IN /\ Cardinality(newRoots) = Len(name.iter)
           /\ res'.iter = name.iter
           /\ res'.kind = proj(name.iter, NODE)
           /\ Len(res'.item) = Len(name.iter)
           /\ NoDuplicates(res'.item)
           /\ \A k \in Idx(res'.item) : res'.item[k] + 1 \in newRoots
           /\ \A k \in Idx(name.iter) :
                 Cardinality({a \in newAttr :
                                 ws'.ATTR_OWN[WS][a] = res'.item[k]})
                 = Cardinality({i \in Idx(res.iter) :
                                   /\ res.iter[i] = name.iter[k]
                                   /\ res.kind[i].t = "ATTR"})]_vars

\* an element of two distinct attributes and one child node has been
\* constructed: one root of size 1 or more that owns two attribute entries
C10_Witness ==
    /\ last = "c_elem" /\ err = ""
    /\ Len(res.item) = 1
    /\ ws.PRE_SIZE[WS][res.item[1] + 1] >= 1
    /\ Cardinality({a \in Idx(ws.ATTR_OWN[WS]) :
                       ws.ATTR_OWN[WS][a] = res.item[1]}) = 2

\* the sizes of the node items of the content r in iteration it
NodeSizes(r, it, w) ==
    LET n == Rows(Len(r.iter),
                  LAMBDA i : r.iter[i] = it /\ r.kind[i].t = "NODE")
    IN [k \in Idx(n) |-> w.PRE_SIZE[get_fragment(r.kind[n[k]])][r.item[n[k]] + 1]]

\* the size of every new root is 1 plus the sum of the sizes of the node
\* items of its iteration
C11_RootSizeOnePlus ==
    [][(c_elem_end /\ err' = "") =>
        \A k \in Idx(res'.item) :
            ws'.PRE_SIZE[WS][res'.item[k] + 1]
            = 1 + Sum(NodeSizes(res, res'.iter[k], ws))]_vars

\* C11: the size stored for a new element root is the sum, over the node
\* items of the content of its iteration, of the size of the item plus 1
\* (the number of nodes copied below the root); it is 0 for an iteration
\* whose content holds no node
C11_RootSize ==
    [][(c_elem_end /\ err' = "") =>
        \A k \in Idx(res'.item) :
            ws'.PRE_SIZE[WS][res'.item[k] + 1]
            = Sum(NodeSizes(res, res'.iter[k], ws))
              + Len(NodeSizes(res, res'.iter[k], ws))]_vars

\* two elements have been constructed, one without a node in its content
\* and one with two nodes in its content
C11_Witness ==
    /\ last = "c_elem" /\ err = ""
    /\ Len(res.item) = 2
    /\ ws.PRE_SIZE[WS][res.item[1] + 1] = 0
    /\ ws.PRE_SIZE[WS][res.item[2] + 1] >= 2
    /\ Cardinality({p \in (res.item[2] + 2)..
                          (res.item[2] + 1 + ws.PRE_SIZE[WS][res.item[2] + 1]) :
                       ws.PRE_LEVEL[WS][p] = 1}) = 2

\* the (namespace, local name) of the attribute item i of the table r
AttrName(r, i, w) ==
    LET f == get_fragment(r.kind[i])
        qf == w.ATTR_FRAG[f][r.item[i] + 1]
        qn == w.ATTR_QN[f][r.item[i] + 1]
    IN <<w.QN_NS[qf][qn + 1], w.QN_LOC[qf][qn + 1]>>

\* two attribute items of one iteration of r have the same name
SameNameTwice(r, w) ==
    \E i, j \in Idx(r.iter) :
        /\ i # j
        /\ r.iter[i] = r.iter[j]
        /\ r.kind[i].t = "ATTR" /\ r.kind[j].t = "ATTR"
        /\ AttrName(r, i, w) = AttrName(r, j, w)

\* C12: element construction over a content of nodes and attributes raises
\* the error 'attributes are not unique' exactly when two attribute items of
\* one iteration have the same (namespace, local name), whatever fragments
\* the attributes come from
C12_AttrsUnique ==
    [][(c_elem_end
        /\ \A i \in Idx(res.kind) : res.kind[i].t \in {"NODE", "ATTR"})
       => (err' = "attributes are not unique in element construction"
           <=> SameNameTwice(res, ws))]_vars

\* the items of the table r in iteration it
ItemsOf(r, it) == Rows(Len(r.iter), LAMBDA i : r.iter[i] = it)

\* the strings of the table r in iteration it
StringsOf(r, it) ==
    Rows(Len(r.iter), LAMBDA i : r.iter[i] = it /\ r.kind[i] = STR)

\* the attribute entries of the fragment WS made by a step
NewAttrs == (Len(ws.ATTR_OWN[WS]) + 1)..Len(ws'.ATTR_OWN[WS])

\* one unattached attribute has been made for every iteration of the loop
OneAttrEach ==
    /\ Cardinality(NewAttrs) = Len(Cur.loop)
    /\ \A a \in NewAttrs : ws'.ATTR_OWN[WS][a] = nil
    /\ res'.iter = Cur.loop
    /\ res'.kind = proj(Cur.loop, ATTR)
    /\ \A k \in Idx(res'.item) : res'.item[k] + 1 \in NewAttrs
    /\ NoDuplicates(res'.item)

\* attribute construction with a name for every iteration raises an error
\* exactly when some iteration of the loop has zero strings or more than
\* one, and otherwise makes one unattached attribute for every iteration
C17_ErrorUnlessOneString ==
    [][(c_attr_end /\ Len(SavedTop.iter) = Len(Cur.loop)) =>
        IF \E i \in Idx(Cur.loop) : Len(StringsOf(res, Cur.loop[i])) # 1
        THEN err' # ""
        ELSE err' = "" /\ OneAttrEach]_vars

\* C17: attribute construction with a name for every iteration raises an
\* error exactly when the content holds an item that is no string or holds
\* more than one item in some iteration; otherwise it makes one unattached
\* attribute (owner nil) for every iteration of the loop, and the attribute
\* of an iteration without a content item has the empty string as value
C17_AttrConstr ==
    [][(c_attr_end /\ Len(SavedTop.iter) = Len(Cur.loop)) =>
        IF \/ \E i \in Idx(res.kind) : res.kind[i] # STR
           \/ \E i \in Idx(Cur.loop) : Len(ItemsOf(res, Cur.loop[i])) > 1
        THEN err' # ""
        ELSE /\ err' = ""
             /\ OneAttrEach
             /\ \A k \in Idx(Cur.loop) :
                   ws'.PROP_VAL[WS][ws'.ATTR_PROP[WS][res'.item[k] + 1] + 1]
                   = IF ItemsOf(res, Cur.loop[k]) = <<>> THEN ""
                     ELSE vals.str[res.item[ItemsOf(res, Cur.loop[k])[1]] + 1]]_vars

\* attributes have been constructed for two iterations, the first of them
\* without a content item
C17_Witness ==
    /\ last = "c_attr" /\ err = ""
    /\ Len(res.item) = 2
    /\ arg.iter = <<2>> /\ arg.kind = <<STR>>
    /\ ws.ATTR_OWN[WS][res.item[1] + 1] = nil
    /\ ws.PROP_VAL[WS][ws.ATTR_PROP[WS][res.item[1] + 1] + 1] = ""
    /\ ws.PROP_VAL[WS][ws.ATTR_PROP[WS][res.item[2] + 1] + 1] = "a"

\* C18: text construction raises its error exactly when some iteration of
\* the content does not hold exactly one item, of string kind; otherwise it
\* makes one new text node of level 0 and size 0 for every iteration
C18_TextConstr ==
    [][c_text =>
        LET newPre == (Len(ws.PRE_KIND[WS]) + 1)..Len(ws'.PRE_KIND[WS])
        IN IF \E i \in Idx(res.iter) :
                 Len(ItemsOf(res, res.iter[i])) # 1 \/ res.kind[i] # STR
           THEN err' = "Text Constructor awaits exactly one string for each iter"
           ELSE /\ err' = ""
                /\ Cardinality(newPre) = Len(res.iter)
                /\ res'.iter = res.iter
                /\ res'.kind = proj(res.iter, NODE)
                /\ \A k \in Idx(res'.item) :
                      /\ res'.item[k] + 1 \in newPre
                      /\ ws'.PRE_KIND[WS][res'.item[k] + 1] = "TEXT"
                      /\ ws'.PRE_LEVEL[WS][res'.item[k] + 1] = 0
                      /\ ws'.PRE_SIZE[WS][res'.item[k] + 1] = 0]_vars

\* the axis every kind of location step stands for
OwnAxis ==
    "c_ancestor" :> "ancestor" @@ "c_ancestor_or_self" :> "ancestor_or_self"
    @@ "c_attribute" :> "attribute" @@ "c_child" :> "child"
    @@ "c_descendant" :> "descendant"
    @@ "c_descendant_or_self" :> "descendant_or_self"
    @@ "c_following" :> "following"
    @@ "c_following_sibling" :> "following_sibling"
    @@ "c_parent" :> "parent" @@ "c_preceding" :> "preceding"
    @@ "c_preceding_sibling" :> "preceding_sibling"

\* C19: a location step of the attribute axis or of one of the ten element
\* axes is translated with the primitive of its own axis; a step of any
\* other kind is not translated but given up with 'illegal XPath axis'
C19_OwnAxis ==
    last = "c_locsteps" =>
        IF step.kind \in DOMAIN OwnAxis
        THEN err = "" /\ step.axis = OwnAxis[step.kind]
        ELSE err = "illegal XPath axis in MIL-translation" /\ step.axis = ""

\* C13: the translation of a string literal yields, for every iteration, the
\* one reference into str_values whose entry is the string of the literal:
\* the same string always gets the same reference and different strings get
\* different references; the entries handed out earlier are unchanged after
\* a later literal has been interned
C13_Interning ==
    [][/\ \A l \in Literals :
            (c_lit_of(l) /\ l[1] = "str") =>
                /\ res'.kind = proj(Cur.loop, STR)
                /\ \A k \in Idx(res'.item), i \in Idx(vals'.str) :
                      vals'.str[i] = l[2] <=> i = res'.item[k] + 1
       /\ NoDuplicates(vals'.str)
       /\ \A i \in Idx(vals.str) :
             i <= Len(vals'.str) /\ vals'.str[i] = vals.str[i]]_vars

\* two different new strings have been interned one after the other, and a
\* result that holds the reference of the first has been saved
C13_Witness ==
    /\ last = "c_lit" /\ saved # <<>>
    /\ vals.str = <<"", "a", "b", "c">>
    /\ Len(res.item) >= 1 /\ res.item[1] = 3 /\ res.kind[1] = STR
    /\ Len(SavedTop.item) >= 1 /\ SavedTop.item[1] = 2
    /\ SavedTop.kind[1] = STR

(* ------------------------------------------------------------------ *)
(* Claims about the levels and the slots of the emitted code           *)
(* ------------------------------------------------------------------ *)

\* the piece of code t of the stream uses the level d of its place
TokenLevelOk(t, d) ==
    LET fn == t[2]
        a == t[3]
    IN CASE fn \in {"translateVar", "project", "mapBack", "createNewVarTable",
                    "cleanUpLevel", "translateConst", "expOid:=v_iter.mirror"}
               -> a[1] = d
         [] fn = "getExpanded" -> a[1] = d - 1
         [] fn \in {"expand", "join"} -> a = <<d - 1, d>>
         [] fn \in {"append", "phase1"} -> a[2] = d
         [] fn = "{translateIfThen" -> a = <<d, d - 1>>
         [] OTHER -> TRUE

RECURSIVE LevelsFrom(_, _, _)
\* from piece i on, every piece of the code uses the level of its place:
\* d is the level at piece i, raised where the code of a for node or of a
\* branch opens a scope and lowered where it closes the scope
LevelsFrom(code, i, d) ==
    IF i > Len(code) THEN d = 0
    ELSE LET fn == code[i][2]
             here == IF fn \in {"{for-translation", "{translateIfThen"}
                     THEN d + 1 ELSE d
             next == IF fn \in {"}for-translation", "}translateIfThen"}
                     THEN here - 1 ELSE here
         IN TokenLevelOk(code[i], here) /\ LevelsFrom(code, i + 1, next)

\* the level a node is translated at: the number of for nodes whose body
\* and of if-then-else nodes whose branches contain it
TreeLevel(n) ==
    Cardinality({a \in NodeIds :
        \/ nodes[a].kind = "c_for" /\ InSlot(n, a, 3)
        \/ nodes[a].kind = "c_ifthenelse"
           /\ (InSlot(n, a, 1) \/ InSlot(n, a, 2))})

\* the level of the environment the variable v belongs to
BindLevel(v) ==
    IF nodes[Binder(v)].kind = "c_for" THEN TreeLevel(Binder(v)) + 1
    ELSE TreeLevel(Binder(v))

\* C14: in the code of a tree every piece uses the level of its place: the
\* code of the source expression of a for node at level L comes before the
\* scope of level L+1 is opened and uses level L, the code of the body uses
\* level L+1, the code after the for node uses level L again; the loop
\* variable and the positional variable of the for node are inserted into
\* the environment of level L+1 only
C14_ForLevels ==
    adone =>
        /\ LevelsFrom(out, 1, 0)
        /\ \A i \in Idx(out) : \A v \in DOMAIN var :
              (out[i][2] = "insertVar{" /\ out[i][3][1] = var[v].vid) =>
                 \A k \in 1..5 :
                    /\ out[i + k][2] = "append"
                    /\ out[i + k][3][2] = BindLevel(v)

\* the code of a for node with a used loop variable and a used positional
\* variable inside the body of another for node, whose code closes the
\* scope after it
C14_Witness ==
    /\ adone
    /\ \E f \in ForNodes :
          /\ nodes[f].posvar
          /\ var[VarOf(f)].used = 1 /\ var[PosOf(f)].used = 1
          /\ TreeLevel(f) = 1
    /\ Len(SelectSeq(out, LAMBDA t : t[2] = "insertVar{")) = 2

\* C15: the code of a for node makes one inner iteration of every row of
\* the source result, numbered from 1 in the order of the rows; after
\* mapBack a row of the body result of inner iteration j has the outer
\* iteration of row j of the source, its pos is its rank (from 1) among
\* the rows of its outer iteration, and its item and kind are unchanged
C15_MapBack ==
    [][/\ c_for_begin =>
            /\ scope'[Len(scope')].loop = [j \in Idx(res.iter) |-> j]
            /\ scope'[Len(scope')].inner = [j \in Idx(res.iter) |-> j]
            /\ scope'[Len(scope')].outer = res.iter
       /\ c_for_end =>
            /\ Len(res'.iter) = Len(res.iter)
            /\ \A k \in Idx(res.iter) :
                  /\ res'.iter[k] = Cur.outer[res.iter[k]]
                  /\ res'.pos[k]
                     = Cardinality({m \in 1..k : res'.iter[m] = res'.iter[k]})
            /\ res'.item = res.item /\ res'.kind = res.kind]_vars

\* a for node has been translated in a scope of two iterations, and its
\* body has delivered two rows that belong to outer iteration 1
C15_Witness ==
    /\ last = "c_for"
    /\ Len(Cur.loop) = 2
    /\ res.iter = <<1, 1>> /\ res.pos = <<1, 2>>
    /\ res.kind = <<STR, INT>>

\* the integer bound to variable vid in iteration j of the level l
IntOf(l, vid, j, v) ==
    LET e == CHOOSE e \in Idx(l.v_vid) : l.v_vid[e] = vid /\ l.v_iter[e] = j
    IN v.int[l.v_item[e] + 1]

\* C16: the integer bound to a used positional variable in an inner
\* iteration is the rank of the source row among the source rows of its own
\* outer iteration (counted from the same base, 0 or 1, in every outer
\* iteration), not an index that runs across the outer iterations
C16_PositionalRank ==
    [][(c_for_begin /\ nvid + 1 \in scope'[Len(scope')].vis) =>
        \E base \in {0, 1} :
           \A j \in Idx(res.iter) :
              IntOf(scope'[Len(scope')], nvid + 1, j, vals')
              = base + Cardinality({m \in 1..(j - 1) : res.iter[m] = res.iter[j]})
      ]_vars

\* the slot of saved results a piece of emitted code reads (0: none)
SlotRead(t) ==
    CASE t[2] \in {"translateSeq", "selected/skip", "selected:=false",
                   "phase1", "loop_liftedElemConstr"} -> t[3][1]
      [] t[2] = "loop_liftedAttrConstr" -> t[3][2]
      [] OTHER -> 0

RECURSIVE SlotsFrom(_, _, _)
\* the code from position i on keeps the discipline of the slots, live being
\* the slots saved and not yet deleted before position i (innermost last)
SlotsFrom(code, i, live) ==
    IF i > Len(code) THEN live = <<>>
    ELSE LET t == code[i]
             k == t[3][1]
         IN CASE t[2] = "saveResult" ->
                   /\ \A m \in Idx(live) : live[m] # k
                   /\ SlotsFrom(code, i + 1, Append(live, k))
              [] t[2] = "deleteResult" ->
                   /\ live # <<>>
                   /\ live[Len(live)] = k
                   /\ SlotsFrom(code, i + 1, SubSeq(live, 1, Len(live) - 1))
              [] OTHER ->
                   /\ SlotRead(t) # 0
                      => \E m \in Idx(live) : live[m] = SlotRead(t)
                   /\ SlotsFrom(code, i + 1, live)

\* C20: in the emitted code the slots of saved results are used as a
\* stack: a saveResult of slot k never meets k live, a deleteResult of k
\* deletes the slot saved last, the merge of a sequence, the selection of an
\* if-then-else and the constructors read only a live slot, and at the end
\* of the translation no slot is live
C20_SlotDiscipline == adone => SlotsFrom(out, 1, <<>>)

\* the translation is finished, and three slots have been live together,
\* the outermost of them read by an element constructor
C20_Witness ==
    /\ adone
    /\ \E i, j \in Idx(out) :
          /\ i < j
          /\ out[i][2] = "saveResult" /\ out[i][3] = <<3>>
          /\ out[j][2] = "loop_liftedElemConstr" /\ out[j][3] = <<1>>

(* ------------------------------------------------------------------ *)
(* Claims about the variable environment and the order of the rows     *)
(* ------------------------------------------------------------------ *)

\* the rows <<pos, item, kind>> the environment of scope l holds for
\* variable v in iteration j, in the order of the tables
EnvRows(l, v, j) ==
    LET hit == Rows(Len(l.v_vid),
                    LAMBDA e : l.v_vid[e] = v /\ l.v_iter[e] = j)
    IN [k \in Idx(hit) |->
           <<l.v_pos[hit[k]], l.v_item[hit[k]], l.v_kind[hit[k]]>>]

\* the iterations of the environment of scope l that hold rows of v
EnvIters(l, v) ==
    {l.v_iter[e] : e \in {x \in Idx(l.v_vid) : l.v_vid[x] = v}}

\* scope k holds, for every variable it has taken over from the enclosing
\* scope and every iteration of its loop, the rows the enclosing scope holds
\* for the iteration it was opened for, and no rows of other iterations
CarriedTo(sc, k) ==
    \A v \in sc[k].vis \cap sc[k - 1].vis :
       IF sc[k].alias
       THEN \A j \in EnvIters(sc[k], v) \cup EnvIters(sc[k - 1], v) :
               EnvRows(sc[k], v, j) = EnvRows(sc[k - 1], v, j)
       ELSE /\ \A i \in Idx(sc[k].inner) :
                  EnvRows(sc[k], v, sc[k].inner[i])
                  = EnvRows(sc[k - 1], v, sc[k].outer[i])
            /\ \A j \in EnvIters(sc[k], v) :
                  \E i \in Idx(sc[k].inner) : sc[k].inner[i] = j

\* the result is the rows the environment of scope l holds for variable v
IsLookup(r, l, v) ==
    LET hit == Rows(Len(l.v_vid), LAMBDA e : l.v_vid[e] = v)
    IN /\ Len(r.iter) = Len(hit) /\ Len(r.pos) = Len(hit)
       /\ Len(r.item) = Len(hit) /\ Len(r.kind) = Len(hit)
       /\ \A k \in Idx(hit) :
             /\ r.iter[k] = l.v_iter[hit[k]] /\ r.pos[k] = l.v_pos[hit[k]]
             /\ r.item[k] = l.v_item[hit[k]] /\ r.kind[k] = l.v_kind[hit[k]]

CondOf ==
    IF Top.st = "else" /\ Top.shape = "both" THEN saved[Len(saved) - 1]
    ELSE SavedTop

\* the result of a branch that looks up variable v, by the three phases of
\* translateIfThen: l is the enclosing scope and b the saved condition
FullBranch(l, b, then, v) ==
    LET selected == ord_uselect(b.item, IF then THEN 1 ELSE 0)
        outer == leftfetchjoin(selected, b.iter)
        inner == mark(outer, 1)
        expOid == [e \in Idx(l.v_iter) |-> e]
        l1 == Level(inner, inner, outer,
                    mil_expand_join(l, expOid, outer, inner), FALSE, l.vis)
    IN mil_mapBack(mil_translateVar(l1, v), inner, outer)

\* C23: a branch of an if-then-else that is run on a shortcut path (skip is
\* 1 or 2) and looks up a variable of the enclosing scope delivers the rows
\* the three phases (skip = 0) deliver for the same condition result
C23_ShortcutSame ==
    [][(/\ c_if_branch_end
        /\ Top.skip # 0
        /\ pc = "done" /\ last = "c_var"
        /\ Cur.vis = scope[Len(scope) - 1].vis)
       => \E v \in Cur.vis :
             res' = FullBranch(scope[Len(scope) - 1], CondOf,
                               Top.st = "then", v)]_vars

\* the rows <<item, kind>> of iteration j of a result, in row order
ItemsIn(r, j) ==
    LET hit == Rows(Len(r.iter), LAMBDA i : r.iter[i] = j)
    IN [k \in Idx(hit) |-> <<r.item[hit[k]], r.kind[hit[k]]>>]

\* the pos values of iteration j of a result, in row order
PosesIn(r, j) ==
    LET hit == Rows(Len(r.iter), LAMBDA i : r.iter[i] = j)
    IN [k \in Idx(hit) |-> r.pos[hit[k]]]

ItersOf(r) == {r.iter[i] : i \in Idx(r.iter)}

Sorted(s) == \A i \in 1..(Len(s) - 1) : s[i] <= s[i + 1]

\* C25: the iter column of the result of every piece of code that has run
\* is sorted non-decreasing, and so is the iter column of every saved
\* result; the two operands of the merged unions of translateSeq and of the
\* element constructor therefore pass chk_order
C25_IterSorted ==
    /\ Sorted(res.iter)
    /\ \A k \in Idx(saved) : Sorted(saved[k].iter)

\* pf:distinct-doc-order has delivered a node of iteration 1 and a node of
\* iteration 2 that comes before it in document order
C25_Witness ==
    /\ last = "pf:distinct-doc-order" /\ err = ""
    /\ res.iter = <<1, 2>>
    /\ res.item = <<2, 1>>

\* C26: after the code of a node has run without ERROR, the pos values of
\* the rows of every iteration are 1..n in row order
C26_PosRank ==
    (err = "" /\ pc = "done") => res.pos = mark_grp(res.iter)

\* the five tables of the variable environment of a scope
EnvOf(l) == Env(l.v_vid, l.v_iter, l.v_pos, l.v_item, l.v_kind)

\* C27: the code of a for body or of an if-branch leaves the tables of the
\* enclosing levels as they are: a step changes the tables of the innermost
\* scope only, and a step that opens or closes a scope changes no table of a
\* scope that stays; so level L holds after the scope is closed the rows it
\* held before the scope was opened
C27_ParentEnvKept ==
    [][\A k \in Idx(scope) :
          (k <= Len(scope') /\ (k < Len(scope) \/ Len(scope') # Len(scope)))
             => EnvOf(scope'[k]) = EnvOf(scope[k])]_vars

\* C29: a constructor whose code stops with an ERROR has appended nothing
\* to the working set: the checks of the element, attribute and text
\* constructors run before their inserts
C29_ChecksFirst ==
    [][((c_elem_end \/ c_attr_end \/ c_text) /\ err' # "") => ws' = ws]_vars

(* ---------------- Claims about the choice of the step primitive ------ *)

\* the namespace a name test filters on: a missing namespace is the empty
\* namespace, "*" is no filter
NsFilter(t) == IF t.ns = NULL THEN <<"">> ELSE IF t.ns = "*" THEN <<>>
                                                ELSE <<t.ns>>

\* the local name a name test filters on: "*" is no filter
LocFilter(t) == IF t.loc = "*" THEN <<>> ELSE <<t.loc>>

\* the variant of the external primitive and its filter arguments that the
\* filters of the node test t select
VariantFor(t) ==
    IF t.kind # "c_namet" /\ t.kind # "c_kind_node"
    THEN [variant |-> "_with_kind_test", filters |-> <<test_of(t).kind>>]
    ELSE IF t.kind = "c_kind_node" \/ NsFilter(t) \o LocFilter(t) = <<>>
    THEN [variant |-> "", filters |-> <<>>]
    ELSE IF NsFilter(t) # <<>> /\ LocFilter(t) # <<>>
    THEN [variant |-> "_with_nsloc_test",
          filters |-> NsFilter(t) \o LocFilter(t)]
    ELSE IF LocFilter(t) # <<>>
    THEN [variant |-> "_with_loc_test", filters |-> LocFilter(t)]
    ELSE [variant |-> "_with_ns_test", filters |-> NsFilter(t)]

====
